---------------------------- MODULE Spec2Model ----------------------------
(***************************************************************************)
(* A model of the nesemu machine: the 6502 interpreter (src/nes/cpu.rs),   *)
(* the bus (src/nes/mod.rs), the PPU (src/nes/ppu.rs), the APU             *)
(* (src/nes/apu.rs), the controller (src/nes/controller.rs) and the        *)
(* cartridge mappers (src/nes/cartridge.rs).                               *)
(*                                                                         *)
(* Every Rust function is an operator of the same name that takes the      *)
(* machine as a record and returns the machine it leaves behind (and the   *)
(* value it returns).  Unsigned arithmetic keeps its width: u8 values are  *)
(* reduced mod 256 and u16 values mod 65536, the result of the release     *)
(* build.  A panic (unwrap of None, panic!, unimplemented!, an index out   *)
(* of range) sets the field fault, after which nothing runs.               *)
(*                                                                         *)
(* The bytes of the instruction stream (the opcode at PC and its operand   *)
(* bytes) are inputs of Execute; the other bytes of the cartridge come     *)
(* from the fixed images prg_rom and chr_rom.                              *)
(***************************************************************************)
EXTENDS Integers, Sequences, FiniteSets, TLC

VARIABLES
    cpu,         \* Cpu: reg {pc, sp, a, x, y, status}, nmi_triggered
    ram,         \* Machine.ram, 2 KiB, as the map of its non-zero cells
    nmi_line,    \* Machine.nmi_line
    ppu,         \* Ppu
    controller,  \* Controller
    cart,        \* Cartridge: the mapper and its registers
    apu,         \* Apu: frame counter and channels
    irq_line,    \* the APU's interrupt request as collected by the bus
    fault,       \* "none", or the panic that ended the program
    hist,        \* what the last operation was and the state it started from
    fuel         \* operations still allowed by the bounds

vars == <<cpu, ram, nmi_line, ppu, controller, cart, apu, irq_line, fault, hist, fuel>>

\* The calls between the functions of the program: call(f, a) is the function
\* named f applied to the arguments a.
RECURSIVE call(_, _)

---------------------------------------------------------------------------
(* Bit arithmetic on naturals.                                             *)

RECURSIVE And(_, _)
And(a, b) ==
    IF a = 0 \/ b = 0 THEN 0
    ELSE (IF a % 2 = 1 /\ b % 2 = 1 THEN 1 ELSE 0) + 2 * And(a \div 2, b \div 2)

RECURSIVE Or(_, _)
Or(a, b) ==
    IF a = 0 THEN b
    ELSE IF b = 0 THEN a
    ELSE (IF a % 2 = 1 \/ b % 2 = 1 THEN 1 ELSE 0) + 2 * Or(a \div 2, b \div 2)

RECURSIVE Xor(_, _)
Xor(a, b) ==
    IF a = 0 THEN b
    ELSE IF b = 0 THEN a
    ELSE (IF a % 2 # b % 2 THEN 1 ELSE 0) + 2 * Xor(a \div 2, b \div 2)

Pow2(n) == CASE n = 0 -> 1 [] n = 1 -> 2 [] n = 2 -> 4 [] n = 3 -> 8
             [] n = 4 -> 16 [] n = 5 -> 32 [] n = 6 -> 64 [] n = 7 -> 128
             [] n = 8 -> 256 [] n = 9 -> 512 [] n = 10 -> 1024 [] n = 11 -> 2048
             [] n = 12 -> 4096 [] n = 13 -> 8192 [] n = 14 -> 16384 [] n = 15 -> 32768
             [] OTHER -> 65536

Bit(v, n) == (v \div Pow2(n)) % 2 = 1
U8(v) == v % 256
U16(v) == v % 65536
Not8(v) == 255 - v
Not16(v) == 65535 - v
\* value as i8 / i16
I8(v) == IF v >= 128 THEN v - 256 ELSE v
I16(v) == IF v >= 32768 THEN v - 65536 ELSE v

\* A sparse array: the map of the cells that differ from the default value.
Get(mem, dflt, i) == IF i \in DOMAIN mem THEN mem[i] ELSE dflt
Put(mem, dflt, i, v) ==
    IF v = dflt THEN [j \in DOMAIN mem \ {i} |-> mem[j]]
    ELSE [j \in DOMAIN mem \cup {i} |-> IF j = i THEN v ELSE mem[j]]
Empty == [j \in {} |-> 0]

---------------------------------------------------------------------------
(* cpu.rs: flags, addressing modes and the instruction table.              *)

Carry == 0
Zero == 1
InterruptDisable == 2
DecimalMode == 3
Overflow == 6
Negative == 7

set_flag(status, flag, enabled) ==
    IF enabled THEN Or(status, Pow2(flag)) ELSE And(status, Not8(Pow2(flag)))

get_status_flag(s, flag) == Bit(s.cpu.reg.status, flag)

instructions ==
    1 :> <<"ORA", "IndirectX">> @@ 3 :> <<"*SLO", "IndirectX">> @@ 4 :> <<"*NOP", "ZeroPage">>
    @@ 5 :> <<"ORA", "ZeroPage">> @@ 6 :> <<"ASL", "ZeroPage">> @@ 7 :> <<"*SLO", "ZeroPage">>
    @@ 8 :> <<"PHP", "Implied">> @@ 9 :> <<"ORA", "Immediate">> @@ 10 :> <<"ASL", "Accumulator">>
    @@ 12 :> <<"*NOP", "Absolute">> @@ 13 :> <<"ORA", "Absolute">> @@ 14 :> <<"ASL", "Absolute">>
    @@ 15 :> <<"*SLO", "Absolute">> @@ 16 :> <<"BPL", "Relative">> @@ 17 :> <<"ORA", "IndirectY">>
    @@ 19 :> <<"*SLO", "IndirectY">> @@ 20 :> <<"*NOP", "ZeroPageX">> @@ 21 :> <<"ORA", "ZeroPageX">>
    @@ 22 :> <<"ASL", "ZeroPageX">> @@ 23 :> <<"*SLO", "ZeroPageX">> @@ 24 :> <<"CLC", "Implied">>
    @@ 25 :> <<"ORA", "AbsoluteY">> @@ 26 :> <<"*NOP", "Implied">> @@ 27 :> <<"*SLO", "AbsoluteY">>
    @@ 28 :> <<"*NOP", "AbsoluteX">> @@ 29 :> <<"ORA", "AbsoluteX">> @@ 30 :> <<"ASL", "AbsoluteX">>
    @@ 31 :> <<"*SLO", "AbsoluteX">> @@ 32 :> <<"JSR", "Absolute">> @@ 33 :> <<"AND", "IndirectX">>
    @@ 35 :> <<"*RLA", "IndirectX">> @@ 36 :> <<"BIT", "ZeroPage">> @@ 37 :> <<"AND", "ZeroPage">>
    @@ 38 :> <<"ROL", "ZeroPage">> @@ 39 :> <<"*RLA", "ZeroPage">> @@ 40 :> <<"PLP", "Implied">>
    @@ 41 :> <<"AND", "Immediate">> @@ 42 :> <<"ROL", "Accumulator">> @@ 44 :> <<"BIT", "Absolute">>
    @@ 45 :> <<"AND", "Absolute">> @@ 46 :> <<"ROL", "Absolute">> @@ 47 :> <<"*RLA", "Absolute">>
    @@ 48 :> <<"BMI", "Relative">> @@ 49 :> <<"AND", "IndirectY">> @@ 51 :> <<"*RLA", "IndirectY">>
    @@ 52 :> <<"*NOP", "ZeroPageX">> @@ 53 :> <<"AND", "ZeroPageX">> @@ 54 :> <<"ROL", "ZeroPageX">>
    @@ 55 :> <<"*RLA", "ZeroPageX">> @@ 56 :> <<"SEC", "Implied">> @@ 57 :> <<"AND", "AbsoluteY">>
    @@ 58 :> <<"*NOP", "Implied">> @@ 59 :> <<"*RLA", "AbsoluteY">> @@ 60 :> <<"*NOP", "AbsoluteX">>
    @@ 61 :> <<"AND", "AbsoluteX">> @@ 62 :> <<"ROL", "AbsoluteX">> @@ 63 :> <<"*RLA", "AbsoluteX">>
    @@ 64 :> <<"RTI", "Implied">> @@ 65 :> <<"EOR", "IndirectX">> @@ 67 :> <<"*SRE", "IndirectX">>
    @@ 68 :> <<"*NOP", "ZeroPage">> @@ 69 :> <<"EOR", "ZeroPage">> @@ 70 :> <<"LSR", "ZeroPage">>
    @@ 71 :> <<"*SRE", "ZeroPage">> @@ 72 :> <<"PHA", "Implied">> @@ 73 :> <<"EOR", "Immediate">>
    @@ 74 :> <<"LSR", "Accumulator">> @@ 76 :> <<"JMP", "Absolute">> @@ 77 :> <<"EOR", "Absolute">>
    @@ 78 :> <<"LSR", "Absolute">> @@ 79 :> <<"*SRE", "Absolute">> @@ 80 :> <<"BVC", "Relative">>
    @@ 81 :> <<"EOR", "IndirectY">> @@ 83 :> <<"*SRE", "IndirectY">> @@ 84 :> <<"*NOP", "ZeroPageX">>
    @@ 85 :> <<"EOR", "ZeroPageX">> @@ 86 :> <<"LSR", "ZeroPageX">> @@ 87 :> <<"*SRE", "ZeroPageX">>
    @@ 89 :> <<"EOR", "AbsoluteY">> @@ 90 :> <<"*NOP", "Implied">> @@ 91 :> <<"*SRE", "AbsoluteY">>
    @@ 92 :> <<"*NOP", "AbsoluteX">> @@ 93 :> <<"EOR", "AbsoluteX">> @@ 94 :> <<"LSR", "AbsoluteX">>
    @@ 95 :> <<"*SRE", "AbsoluteX">> @@ 96 :> <<"RTS", "Implied">> @@ 97 :> <<"ADC", "IndirectX">>
    @@ 99 :> <<"*RRA", "IndirectX">> @@ 100 :> <<"*NOP", "ZeroPage">> @@ 101 :> <<"ADC", "ZeroPage">>
    @@ 102 :> <<"ROR", "ZeroPage">> @@ 103 :> <<"*RRA", "ZeroPage">> @@ 104 :> <<"PLA", "Implied">>
    @@ 105 :> <<"ADC", "Immediate">> @@ 106 :> <<"ROR", "Accumulator">> @@ 108 :> <<"JMP", "Indirect">>
    @@ 109 :> <<"ADC", "Absolute">> @@ 110 :> <<"ROR", "Absolute">> @@ 111 :> <<"*RRA", "Absolute">>
    @@ 112 :> <<"BVS", "Relative">> @@ 113 :> <<"ADC", "IndirectY">> @@ 115 :> <<"*RRA", "IndirectY">>
    @@ 116 :> <<"*NOP", "ZeroPageX">> @@ 117 :> <<"ADC", "ZeroPageX">> @@ 118 :> <<"ROR", "ZeroPageX">>
    @@ 119 :> <<"*RRA", "ZeroPageX">> @@ 120 :> <<"SEI", "Implied">> @@ 121 :> <<"ADC", "AbsoluteY">>
    @@ 122 :> <<"*NOP", "Implied">> @@ 123 :> <<"*RRA", "AbsoluteY">> @@ 124 :> <<"*NOP", "AbsoluteX">>
    @@ 125 :> <<"ADC", "AbsoluteX">> @@ 126 :> <<"ROR", "AbsoluteX">> @@ 127 :> <<"*RRA", "AbsoluteX">>
    @@ 128 :> <<"*NOP", "Immediate">> @@ 129 :> <<"STA", "IndirectX">> @@ 131 :> <<"*SAX", "IndirectX">>
    @@ 132 :> <<"STY", "ZeroPage">> @@ 133 :> <<"STA", "ZeroPage">> @@ 134 :> <<"STX", "ZeroPage">>
    @@ 135 :> <<"*SAX", "ZeroPage">> @@ 136 :> <<"DEY", "Implied">> @@ 138 :> <<"TXA", "Implied">>
    @@ 140 :> <<"STY", "Absolute">> @@ 141 :> <<"STA", "Absolute">> @@ 142 :> <<"STX", "Absolute">>
    @@ 143 :> <<"*SAX", "Absolute">> @@ 144 :> <<"BCC", "Relative">> @@ 145 :> <<"STA", "IndirectY">>
    @@ 148 :> <<"STY", "ZeroPageX">> @@ 149 :> <<"STA", "ZeroPageX">> @@ 150 :> <<"STX", "ZeroPageY">>
    @@ 151 :> <<"*SAX", "ZeroPageY">> @@ 152 :> <<"TYA", "Implied">> @@ 153 :> <<"STA", "AbsoluteY">>
    @@ 154 :> <<"TXS", "Implied">> @@ 157 :> <<"STA", "AbsoluteX">> @@ 160 :> <<"LDY", "Immediate">>
    @@ 161 :> <<"LDA", "IndirectX">> @@ 162 :> <<"LDX", "Immediate">> @@ 163 :> <<"*LAX", "IndirectX">>
    @@ 164 :> <<"LDY", "ZeroPage">> @@ 165 :> <<"LDA", "ZeroPage">> @@ 166 :> <<"LDX", "ZeroPage">>
    @@ 167 :> <<"*LAX", "ZeroPage">> @@ 168 :> <<"TAY", "Implied">> @@ 169 :> <<"LDA", "Immediate">>
    @@ 170 :> <<"TAX", "Implied">> @@ 172 :> <<"LDY", "Absolute">> @@ 173 :> <<"LDA", "Absolute">>
    @@ 174 :> <<"LDX", "Absolute">> @@ 175 :> <<"*LAX", "Absolute">> @@ 176 :> <<"BCS", "Relative">>
    @@ 177 :> <<"LDA", "IndirectY">> @@ 179 :> <<"*LAX", "IndirectY">> @@ 180 :> <<"LDY", "ZeroPageX">>
    @@ 181 :> <<"LDA", "ZeroPageX">> @@ 182 :> <<"LDX", "ZeroPageY">> @@ 183 :> <<"*LAX", "ZeroPageY">>
    @@ 184 :> <<"CLV", "Implied">> @@ 185 :> <<"LDA", "AbsoluteY">> @@ 186 :> <<"TSX", "Implied">>
    @@ 188 :> <<"LDY", "AbsoluteX">> @@ 189 :> <<"LDA", "AbsoluteX">> @@ 190 :> <<"LDX", "AbsoluteY">>
    @@ 191 :> <<"*LAX", "AbsoluteY">> @@ 192 :> <<"CPY", "Immediate">> @@ 193 :> <<"CMP", "IndirectX">>
    @@ 195 :> <<"*DCP", "IndirectX">> @@ 196 :> <<"CPY", "ZeroPage">> @@ 197 :> <<"CMP", "ZeroPage">>
    @@ 198 :> <<"DEC", "ZeroPage">> @@ 199 :> <<"*DCP", "ZeroPage">> @@ 200 :> <<"INY", "Implied">>
    @@ 201 :> <<"CMP", "Immediate">> @@ 202 :> <<"DEX", "Implied">> @@ 204 :> <<"CPY", "Absolute">>
    @@ 205 :> <<"CMP", "Absolute">> @@ 206 :> <<"DEC", "Absolute">> @@ 207 :> <<"*DCP", "Absolute">>
    @@ 208 :> <<"BNE", "Relative">> @@ 209 :> <<"CMP", "IndirectY">> @@ 211 :> <<"*DCP", "IndirectY">>
    @@ 212 :> <<"*NOP", "ZeroPageX">> @@ 213 :> <<"CMP", "ZeroPageX">> @@ 214 :> <<"DEC", "ZeroPageX">>
    @@ 215 :> <<"*DCP", "ZeroPageX">> @@ 216 :> <<"CLD", "Implied">> @@ 217 :> <<"CMP", "AbsoluteY">>
    @@ 218 :> <<"*NOP", "Implied">> @@ 219 :> <<"*DCP", "AbsoluteY">> @@ 220 :> <<"*NOP", "AbsoluteX">>
    @@ 221 :> <<"CMP", "AbsoluteX">> @@ 222 :> <<"DEC", "AbsoluteX">> @@ 223 :> <<"*DCP", "AbsoluteX">>
    @@ 224 :> <<"CPX", "Immediate">> @@ 225 :> <<"SBC", "IndirectX">> @@ 227 :> <<"*ISB", "IndirectX">>
    @@ 228 :> <<"CPX", "ZeroPage">> @@ 229 :> <<"SBC", "ZeroPage">> @@ 230 :> <<"INC", "ZeroPage">>
    @@ 231 :> <<"*ISB", "ZeroPage">> @@ 232 :> <<"INX", "Implied">> @@ 233 :> <<"SBC", "Immediate">>
    @@ 234 :> <<"NOP", "Implied">> @@ 235 :> <<"*SBC", "Immediate">> @@ 236 :> <<"CPX", "Absolute">>
    @@ 237 :> <<"SBC", "Absolute">> @@ 238 :> <<"INC", "Absolute">> @@ 239 :> <<"*ISB", "Absolute">>
    @@ 240 :> <<"BEQ", "Relative">> @@ 241 :> <<"SBC", "IndirectY">> @@ 243 :> <<"*ISB", "IndirectY">>
    @@ 244 :> <<"*NOP", "ZeroPageX">> @@ 245 :> <<"SBC", "ZeroPageX">> @@ 246 :> <<"INC", "ZeroPageX">>
    @@ 247 :> <<"*ISB", "ZeroPageX">> @@ 248 :> <<"SED", "Implied">> @@ 249 :> <<"SBC", "AbsoluteY">>
    @@ 250 :> <<"*NOP", "Implied">> @@ 251 :> <<"*ISB", "AbsoluteY">> @@ 252 :> <<"*NOP", "AbsoluteX">>
    @@ 253 :> <<"SBC", "AbsoluteX">> @@ 254 :> <<"INC", "AbsoluteX">> @@ 255 :> <<"*ISB", "AbsoluteX">>

OpCodes == DOMAIN instructions

---------------------------------------------------------------------------
(* cartridge.rs.  The ROM file is the fixed image below: prg_banks banks   *)
(* of 16 KiB of PRG and chr_banks banks of 8 KiB of CHR.                   *)

PRG_BANK_SIZE == 16384
CHR_BANK_SIZE == 8192

\* NesRomFile.prg_rom[i] and NesRomFile.chr_rom[i] of the image.
prg_rom(i) ==
    IF i % 2 = 0 THEN ((i \div 2) + 7 * (i \div PRG_BANK_SIZE)) % 256
    ELSE 128 + (((i \div 2) + (i \div PRG_BANK_SIZE)) % 128)
chr_rom(i) == IF (i \div 16) % 2 = 0 THEN 0 ELSE (129 + i) % 256

\* Cartridge::load: the mapper as constructed from the header's mapper id.
NromCart(mirr, banks) ==
    [mapper |-> "NROM", mirroring |-> mirr, prg_banks |-> banks, chr_banks |-> 1]
CnromCart(mirr, banks, chrs) ==
    [mapper |-> "CNROM", mirroring |-> mirr, prg_banks |-> banks, chr_banks |-> chrs,
     bank |-> 0]
Mmc1Cart(mirr, banks, chrs) ==
    [mapper |-> "MMC1", mirroring |-> mirr, prg_banks |-> banks, chr_banks |-> chrs,
     shift |-> 0, shift_count |-> 0, mmc1_mirroring |-> "Vertical",
     prg_swap_range_bit |-> TRUE, prg_size_bit |-> TRUE, chr_size_bit |-> FALSE,
     chr_bank_0 |-> 0, chr_bank_1 |-> 0, prg_bank |-> 0,
     prg_ram |-> Empty, chr_ram |-> Empty, has_chr_ram |-> (chrs = 0)]

prg_len(c) == c.prg_banks * PRG_BANK_SIZE
chr_len(c) == c.chr_banks * CHR_BANK_SIZE

\* The PRG-ROM index an MMC1 read of address >= 0x8000 uses.
mmc1_prg_index(c, address) ==
    IF c.prg_size_bit THEN
        LET bank == c.prg_bank % 16
            num_banks == U16(prg_len(c) \div PRG_BANK_SIZE)
            on_lower_bank == address < 49152
            bank_offset == IF address >= 49152 THEN address - 49152 ELSE address - 32768
            effective_bank ==
                IF on_lower_bank = c.prg_swap_range_bit THEN bank
                ELSE IF on_lower_bank THEN 0
                ELSE U16(num_banks + 65535)
        IN  effective_bank * PRG_BANK_SIZE + bank_offset
    ELSE
        LET bank == (c.prg_bank % 16) \div 2
        IN  U16(bank * 32768 + address - 32768)

\* Cartridge::read_mem_cpu: [v, fault].
cart_read_mem_cpu(c, address) ==
    IF c.mapper \in {"NROM", "CNROM"} THEN
        IF address < 32768 THEN [v |-> 255, fault |-> "none"]
        ELSE
            LET mem_address == IF prg_len(c) = PRG_BANK_SIZE
                               THEN (address - 32768) % PRG_BANK_SIZE
                               ELSE address - 32768
            IN  IF mem_address < prg_len(c)
                THEN [v |-> prg_rom(mem_address), fault |-> "none"]
                ELSE [v |-> 0, fault |-> "prg_rom index out of range"]
    ELSE
        IF address < 24576 THEN [v |-> 255, fault |-> "none"]
        ELSE IF address < 32768 THEN
            IF ~Bit(c.prg_bank, 4)
            THEN [v |-> Get(c.prg_ram, 0, address - 24576), fault |-> "none"]
            ELSE [v |-> 255, fault |-> "none"]
        ELSE
            LET mem_address == mmc1_prg_index(c, address)
            IN  IF mem_address < prg_len(c)
                THEN [v |-> prg_rom(mem_address), fault |-> "none"]
                ELSE [v |-> 0, fault |-> "prg_rom index out of range"]

\* The control-register commit of MMC1: [c, fault].
mmc1_commit_control(c, effective_value) ==
    LET m == effective_value % 4
        c1 == [c EXCEPT !.prg_swap_range_bit = Bit(effective_value, 2),
                        !.prg_size_bit = Bit(effective_value, 3),
                        !.chr_size_bit = Bit(effective_value, 4)]
    IN  IF m = 2 THEN [c |-> [c1 EXCEPT !.mmc1_mirroring = "Vertical"], fault |-> "none"]
        ELSE IF m = 3 THEN [c |-> [c1 EXCEPT !.mmc1_mirroring = "Horizontal"], fault |-> "none"]
        ELSE [c |-> c, fault |-> "unimplemented: one-screen mirroring"]

\* Cartridge::write_mem_cpu: [c, fault].
cart_write_mem_cpu(c, address, value) ==
    IF c.mapper = "NROM" THEN [c |-> c, fault |-> "none"]
    ELSE IF c.mapper = "CNROM" THEN
        [c |-> IF address >= 32768 THEN [c EXCEPT !.bank = value] ELSE c, fault |-> "none"]
    ELSE
        IF address < 24576 THEN [c |-> c, fault |-> "none"]
        ELSE IF address < 32768 THEN
            [c |-> IF ~Bit(c.prg_bank, 4)
                   THEN [c EXCEPT !.prg_ram = Put(c.prg_ram, 0, address - 24576, value)]
                   ELSE c,
             fault |-> "none"]
        ELSE IF Bit(value, 7) THEN
            [c |-> [c EXCEPT !.shift = 0, !.shift_count = 0], fault |-> "none"]
        ELSE
            LET shift == Or(c.shift \div 2, IF Bit(value, 0) THEN 16 ELSE 0)
                shift_count == U8(c.shift_count + 1)
            IN  IF shift_count # 5
                THEN [c |-> [c EXCEPT !.shift = shift, !.shift_count = shift_count],
                      fault |-> "none"]
                ELSE
                    LET effective_address == Or(32768, And(address, 24576))
                        c0 == [c EXCEPT !.shift = 0, !.shift_count = 0]
                    IN  IF effective_address < 40960 THEN mmc1_commit_control(c0, shift)
                        ELSE IF effective_address < 49152
                        THEN [c |-> [c0 EXCEPT !.chr_bank_0 = shift], fault |-> "none"]
                        ELSE IF effective_address < 57344
                        THEN [c |-> [c0 EXCEPT !.chr_bank_1 = shift], fault |-> "none"]
                        ELSE [c |-> [c0 EXCEPT !.prg_bank = shift % 16], fault |-> "none"]

get_chr_mem_index(address, chr_size_bit, chr_bank_0, chr_bank_1) ==
    IF chr_size_bit THEN
        IF address < 4096 THEN chr_bank_0 * 4096 + address
        ELSE chr_bank_1 * 4096 + address - 4096
    ELSE (chr_bank_0 \div 2) * 8192 + address

\* The index into the PPU's 2 KiB of VRAM for a nametable address.
vram_index(c, address) ==
    IF c.mirroring = "Vertical" THEN And(address, 63487) - 8192
    ELSE Or(And(address, 62463), And(address \div 2, 1024)) - 8192

\* Cartridge::read_mem_ppu: [v, fault].
RECURSIVE cart_read_mem_ppu(_, _, _)
cart_read_mem_ppu(c, address, vram) ==
    IF address < 8192 THEN
        IF c.mapper = "NROM" THEN
            IF address < chr_len(c) THEN [v |-> chr_rom(address), fault |-> "none"]
            ELSE [v |-> 0, fault |-> "chr_rom index out of range"]
        ELSE IF c.mapper = "CNROM" THEN
            LET index == c.bank * 8192 + address
            IN  IF index < chr_len(c) THEN [v |-> chr_rom(index), fault |-> "none"]
                ELSE [v |-> 0, fault |-> "chr_rom index out of range"]
        ELSE
            LET index == get_chr_mem_index(address, c.chr_size_bit, c.chr_bank_0, c.chr_bank_1)
            IN  IF c.has_chr_ram THEN
                    IF index < 8192 THEN [v |-> Get(c.chr_ram, 0, index), fault |-> "none"]
                    ELSE [v |-> 0, fault |-> "chr_ram index out of range"]
                ELSE IF index < chr_len(c) THEN [v |-> chr_rom(index), fault |-> "none"]
                ELSE [v |-> 0, fault |-> "chr_rom index out of range"]
    ELSE IF address < 12288 THEN [v |-> Get(vram, 0, vram_index(c, address)), fault |-> "none"]
    ELSE IF address < 16128 THEN call("cart_read_mem_ppu", <<c, address - 4096, vram>>)
    ELSE [v |-> 0, fault |-> "unexpected address"]

\* Cartridge::write_mem_ppu: [c, vram, fault].
RECURSIVE cart_write_mem_ppu(_, _, _, _)
cart_write_mem_ppu(c, address, value, vram) ==
    IF address < 8192 THEN
        IF c.mapper = "MMC1" /\ c.has_chr_ram THEN
            LET index == get_chr_mem_index(address, c.chr_size_bit, c.chr_bank_0, c.chr_bank_1)
            IN  IF index < 8192
                THEN [c |-> [c EXCEPT !.chr_ram = Put(c.chr_ram, 0, index, value)],
                      vram |-> vram, fault |-> "none"]
                ELSE [c |-> c, vram |-> vram, fault |-> "chr_ram index out of range"]
        ELSE [c |-> c, vram |-> vram, fault |-> "none"]
    ELSE IF address < 12288 THEN
        [c |-> c, vram |-> Put(vram, 0, vram_index(c, address), value), fault |-> "none"]
    ELSE IF address < 16128 THEN call("cart_write_mem_ppu", <<c, address - 4096, value, vram>>)
    ELSE [c |-> c, vram |-> vram, fault |-> "unexpected address"]

---------------------------------------------------------------------------
(* ppu.rs.  An operator takes the machine s and returns it; the fields it  *)
(* touches are s.ppu, s.cart and s.fault.  The renderer's output (the      *)
(* colour of a pixel) is no state of the machine and is left out.          *)

\* panic!, unimplemented!, unwrap of None, index out of range.
Fail(s, msg) == IF s.fault = "none" THEN [s EXCEPT !.fault = msg] ELSE s

\* Ppu::new
NewPpu ==
    [scan_line |-> 0, cycle_count |-> 0, vblank |-> FALSE,
     vram_addr_increment |-> 1, gen_nmi_at_vblank |-> FALSE,
     mem_read_mut_enabled |-> TRUE,
     background_leftmost_enabled |-> TRUE, sprites_leftmost_enabled |-> TRUE,
     background_enabled |-> TRUE, sprites_enabled |-> TRUE,
     vram |-> Empty, palette_ram |-> Empty, oam |-> Empty,
     secondary_oam |-> Empty, oam_addr |-> 0,
     reg |-> [t |-> 0, v |-> 0, x |-> 0, w |-> FALSE,
              bg_pattern_upper |-> 0, bg_pattern_lower |-> 0,
              bg_attribute_latch |-> 0,
              bg_attribute_upper |-> 0, bg_attribute_lower |-> 0],
     bg_pattern_table_addr |-> 0, sprite_pattern_table_addr |-> 0,
     sprite_height |-> 8, sprite0_enabled |-> FALSE, sprite0_hit |-> FALSE]

\* secondary_oam[i]: the cells that are not 0xFF are the ones kept.
sec(p, i) == Get(p.secondary_oam, 255, i)

\* copy_bits that keeps the bits of dest under the mask.
copy_bits_or(dest, src, mask) == Or(dest, And(src, mask))

copy_bits(dest, src, mask) == Or(And(dest, Not16(mask)), And(src, mask))

\* The index without the fold of the sprite palettes' entries 0.
palette_index_unfolded(ppu_address) == And(ppu_address, 65311) - 16128

\* The index into palette_ram of a PPU address in 0x3F00..0x3FFF.
palette_index(ppu_address) ==
    LET palette_address == And(ppu_address, 65311)
    IN  IF And(palette_address, 65523) = 16144
        THEN (palette_address - 16) - 16128
        ELSE palette_address - 16128

\* Ppu::read_mem_ppu: [v, fault].
read_mem_ppu(s, ppu_address) ==
    IF ppu_address < 16128 THEN call("cart_read_mem_ppu", <<s.cart, ppu_address, s.ppu.vram>>)
    ELSE IF ppu_address < 16384
    THEN [v |-> Get(s.ppu.palette_ram, 0, palette_index(ppu_address)), fault |-> "none"]
    ELSE [v |-> 0, fault |-> "unexpected address"]

\* Ppu::write_mem_ppu
write_mem_ppu(s, ppu_address, value) ==
    IF ppu_address < 16128 THEN
        LET r == call("cart_write_mem_ppu", <<s.cart, ppu_address, value, s.ppu.vram>>)
        IN  IF r.fault # "none" THEN Fail(s, r.fault)
            ELSE [s EXCEPT !.cart = r.c, !.ppu.vram = r.vram]
    ELSE IF ppu_address < 16384 THEN
        [s EXCEPT !.ppu.palette_ram =
                      Put(s.ppu.palette_ram, 0, palette_index(ppu_address), value)]
    ELSE s

\* Ppu::get_background_pixel
get_background_pixel(p) ==
    IF ~p.background_enabled \/ (p.cycle_count < 8 /\ ~p.background_leftmost_enabled)
    THEN 0
    ELSE (IF Bit(p.reg.bg_attribute_upper, 7 - p.reg.x) THEN 8 ELSE 0)
       + (IF Bit(p.reg.bg_attribute_lower, 7 - p.reg.x) THEN 4 ELSE 0)
       + (IF Bit(p.reg.bg_pattern_upper, 15 - p.reg.x) THEN 2 ELSE 0)
       + (IF Bit(p.reg.bg_pattern_lower, 15 - p.reg.x) THEN 1 ELSE 0)

NoSpritePixel == [index |-> 0, front |-> FALSE, sprite0 |-> FALSE, fault |-> "none"]

\* The loop of Ppu::get_sprite_pixel from entry i of the secondary OAM on.
RECURSIVE sprite_pixel_from(_, _)
sprite_pixel_from(s, i) ==
    IF i >= 8 THEN NoSpritePixel
    ELSE
        LET p == s.ppu
            x == p.cycle_count
            y == p.scan_line
            sprite_y == sec(p, i * 4)
            sprite_x == sec(p, i * 4 + 3)
        IN  IF ~(sprite_x <= x /\ x < sprite_x + 8 /\ sprite_y < 239)
            THEN call("sprite_pixel_from", <<s, i + 1>>)
            ELSE
                LET attr == sec(p, i * 4 + 2)
                    tile_x0 == x - sprite_x
                    tile_y0 == U16(y - 1 - sprite_y)
                    tile_index == sec(p, i * 4 + 1)
                    palette_bits == 4 + (attr % 4)
                    tile_x == IF Bit(attr, 6) THEN U16(7 - tile_x0) ELSE tile_x0
                    tile_y == IF Bit(attr, 7) THEN U16(7 - tile_y0) ELSE tile_y0
                    pattern_address_lower ==
                        Or(Or(p.sprite_pattern_table_addr, tile_index * 16), tile_y)
                    pattern_address_upper == Or(pattern_address_lower, 8)
                    lower == call("read_mem_ppu", <<s, pattern_address_lower>>)
                    upper == call("read_mem_ppu", <<s, pattern_address_upper>>)
                    pattern_bits == (IF Bit(upper.v, 7 - tile_x) THEN 2 ELSE 0)
                                  + (IF Bit(lower.v, 7 - tile_x) THEN 1 ELSE 0)
                IN  IF lower.fault # "none" THEN [NoSpritePixel EXCEPT !.fault = lower.fault]
                    ELSE IF upper.fault # "none"
                    THEN [NoSpritePixel EXCEPT !.fault = upper.fault]
                    ELSE IF pattern_bits # 0
                    THEN [index |-> Or(U8(palette_bits * 4), pattern_bits),
                          front |-> ~Bit(attr, 5),
                          sprite0 |-> (i = 0 /\ p.sprite0_enabled),
                          fault |-> "none"]
                    ELSE call("sprite_pixel_from", <<s, i + 1>>)

\* Ppu::get_sprite_pixel
get_sprite_pixel(s) ==
    IF s.ppu.sprites_enabled /\ (s.ppu.cycle_count >= 8 \/ s.ppu.sprites_leftmost_enabled)
    THEN call("sprite_pixel_from", <<s, 0>>)
    ELSE NoSpritePixel

\* The number of entries of Ppu.colors divided by three.
NumColors == 64

\* Ppu::draw_pixel
draw_pixel(s) ==
    LET background_index == get_background_pixel(s.ppu)
        sp == get_sprite_pixel(s)
        both == sp.index % 4 # 0 /\ background_index % 4 # 0
        index == IF both THEN (IF sp.front THEN sp.index ELSE background_index)
                 ELSE IF sp.index # 0 THEN sp.index
                 ELSE background_index
        s1 == IF both /\ sp.sprite0 THEN [s EXCEPT !.ppu.sprite0_hit = TRUE] ELSE s
        color_index == call("read_mem_ppu", <<s1, 16128 + index>>).v
    IN  IF sp.fault # "none" THEN Fail(s, sp.fault)
        ELSE IF color_index >= NumColors THEN Fail(s1, "colors index out of range")
        ELSE s1

\* Ppu::load_bg_tile
load_bg_tile(s) ==
    LET r == s.ppu.reg
        tile_address == Or(8192, r.v % 4096)
        tile == call("read_mem_ppu", <<s, tile_address>>)
        fine_y == r.v \div 4096
        pattern_address_lower == Or(Or(s.ppu.bg_pattern_table_addr, tile.v * 16), fine_y)
        pattern_address_upper == pattern_address_lower + 8
        bitmap_row_lower == call("read_mem_ppu", <<s, pattern_address_lower>>)
        bitmap_row_upper == call("read_mem_ppu", <<s, pattern_address_upper>>)
        attribute_address ==
            Or(Or(9152, And(r.v, 3072)), Or(And(r.v \div 16, 56), And(r.v \div 4, 7)))
        attribute == call("read_mem_ppu", <<s, attribute_address>>)
        attr_x == Bit(r.v, 1)
        attr_y == Bit(r.v, 6)
        palette_bits == IF ~attr_x /\ ~attr_y THEN attribute.v % 4
                        ELSE IF attr_x /\ ~attr_y THEN (attribute.v \div 4) % 4
                        ELSE IF ~attr_x /\ attr_y THEN (attribute.v \div 16) % 4
                        ELSE (attribute.v \div 64) % 4
    IN  IF tile.fault # "none" THEN Fail(s, tile.fault)
        ELSE IF bitmap_row_lower.fault # "none" THEN Fail(s, bitmap_row_lower.fault)
        ELSE IF bitmap_row_upper.fault # "none" THEN Fail(s, bitmap_row_upper.fault)
        ELSE IF attribute.fault # "none" THEN Fail(s, attribute.fault)
        ELSE [s EXCEPT !.ppu.reg.bg_pattern_lower = Or(r.bg_pattern_lower, bitmap_row_lower.v),
                       !.ppu.reg.bg_pattern_upper = Or(r.bg_pattern_upper, bitmap_row_upper.v),
                       !.ppu.reg.bg_attribute_latch = palette_bits]

\* The increment with the nametable bit Y toggled when coarse Y leaves 31 too.
increment_v_vertical_toggle_at_31(v) ==
    IF And(v, 28672) # 28672 THEN U16(v + 4096)
    ELSE
        LET v1 == And(v, Not16(28672))
            y == And(v1, 992) \div 32
            v2 == IF y = 29 \/ y = 31 THEN Xor(v1, 2048) ELSE v1
            y2 == IF y = 29 \/ y = 31 THEN 0 ELSE y + 1
        IN  Or(And(v2, Not16(992)), y2 * 32)

\* Ppu::increment_v_vertical, on the value of v.
increment_v_vertical(v) ==
    IF And(v, 28672) # 28672 THEN U16(v + 4096)
    ELSE
        LET v1 == And(v, Not16(28672))
            y == And(v1, 992) \div 32
            v2 == IF y = 29 THEN Xor(v1, 2048) ELSE v1
            y2 == IF y = 29 \/ y = 31 THEN 0 ELSE y + 1
        IN  Or(And(v2, Not16(992)), y2 * 32)

\* Ppu::increment_v_horizontal, on the value of v.
increment_v_horizontal(v) ==
    IF v % 32 = 31 THEN Xor(And(v, Not16(31)), 1024) ELSE U16(v + 1)

\* secondary_oam[offset_2nd..offset_2nd + 4].clone_from_slice(&oam[offset..offset + 4])
copy_sprite(p, offset, offset_2nd) ==
    LET put(m, k) == Put(m, 255, offset_2nd + k, Get(p.oam, 0, offset + k))
    IN  put(put(put(put(p.secondary_oam, 0), 1), 2), 3)

\* The loop of Ppu::prepare_sprites from offset on: the iterations that copy
\* nothing only advance offset, so it continues at the next sprite in range.
RECURSIVE prepare_sprites_from(_, _, _)
prepare_sprites_from(p, offset, offset_2nd) ==
    IF ~(offset < 256 /\ offset_2nd < 32) THEN p
    ELSE
        LET in_range == {o \in {4 * i : i \in offset \div 4 .. 63} :
                            LET y == Get(p.oam, 0, o)
                            IN  p.scan_line >= y /\ p.scan_line < y + 8}
            next == CHOOSE o \in in_range : \A other \in in_range : o <= other
        IN  IF in_range = {} THEN p
            ELSE call("prepare_sprites_from", <<
                     [p EXCEPT !.secondary_oam = copy_sprite(p, next, offset_2nd),
                               !.sprite0_enabled = (next = 0) \/ p.sprite0_enabled],
                     next + 4, offset_2nd + 4>>)

\* Ppu::prepare_sprites
prepare_sprites(p) ==
    LET p1 == [p EXCEPT !.secondary_oam = Empty]
    IN  IF p.scan_line = -1 THEN p1
        ELSE call("prepare_sprites_from", <<[p1 EXCEPT !.sprite0_enabled = FALSE], 0, 0>>)

\* The body of the loop of Ppu::step_cycle while rendering is enabled.
render_dot(s) ==
    LET p == s.ppu
        cc == p.cycle_count
        next_tile(sb) == [sb EXCEPT !.ppu.reg.v = increment_v_horizontal(sb.ppu.reg.v)]
        fetch(sa) ==
            IF ((cc > 0 /\ cc <= 256) \/ cc = 328 \/ cc = 336) /\ cc % 8 = 0
               /\ ((p.scan_line = -1 /\ cc >= 328)
                   \/ (p.scan_line >= 0 /\ p.scan_line < 240))
            THEN next_tile(load_bg_tile(sa))
            ELSE sa
        scroll ==
            IF p.scan_line = -1 THEN
                IF cc >= 280 /\ cc <= 304
                THEN [s EXCEPT !.ppu.reg.v = copy_bits(p.reg.v, p.reg.t, 31712)]
                ELSE s
            ELSE IF p.scan_line < 240 THEN
                fetch(IF cc = 256
                      THEN [s EXCEPT !.ppu.reg.v = increment_v_vertical(p.reg.v)]
                      ELSE IF cc = 257
                      THEN [s EXCEPT !.ppu.reg.v = copy_bits(p.reg.v, p.reg.t, 1055)]
                      ELSE s)
            ELSE s
        pixel(s1) ==
            IF p.scan_line >= 0 /\ p.scan_line < 240 /\ cc < 256 THEN draw_pixel(s1) ELSE s1
        shift(s2) ==
            IF cc < 336
            THEN [s2 EXCEPT !.ppu.reg.bg_pattern_lower = U16(s2.ppu.reg.bg_pattern_lower * 2),
                            !.ppu.reg.bg_pattern_upper = U16(s2.ppu.reg.bg_pattern_upper * 2),
                            !.ppu.reg.bg_attribute_lower =
                                Or(U8(s2.ppu.reg.bg_attribute_lower * 2),
                                   IF Bit(s2.ppu.reg.bg_attribute_latch, 0) THEN 1 ELSE 0),
                            !.ppu.reg.bg_attribute_upper =
                                Or(U8(s2.ppu.reg.bg_attribute_upper * 2),
                                   IF Bit(s2.ppu.reg.bg_attribute_latch, 1) THEN 1 ELSE 0)]
            ELSE s2
        oam(s3) == IF cc >= 257 /\ cc <= 320 THEN [s3 EXCEPT !.ppu.oam_addr = 0] ELSE s3
    IN  oam(shift(pixel(scroll)))

DOTS_PER_LINE == 341
VBLANK_LINE == 241
LAST_LINE == 261

\* One iteration of the loop of Ppu::step_cycle: one dot.
ppu_dot(s) ==
    LET end_line(p3) ==
            LET line == p3.scan_line + 1
                p4 == [p3 EXCEPT !.scan_line = line,
                                 !.vblank = (line = VBLANK_LINE) \/ p3.vblank]
            IN  IF line >= LAST_LINE
                THEN [p4 EXCEPT !.scan_line = -1, !.vblank = FALSE, !.sprite0_hit = FALSE]
                ELSE p4
        sprites(p2) == IF p2.scan_line < 240 THEN prepare_sprites(p2) ELSE p2
        count(s1) ==
            LET cc == s1.ppu.cycle_count + 1
            IN  IF cc < DOTS_PER_LINE THEN [s1 EXCEPT !.ppu.cycle_count = cc]
                ELSE [s1 EXCEPT !.ppu =
                          end_line(sprites([s1.ppu EXCEPT !.cycle_count = cc - DOTS_PER_LINE]))]
    IN  count(IF s.ppu.background_enabled \/ s.ppu.sprites_enabled THEN render_dot(s) ELSE s)

\* n iterations of the loop of Ppu::step_cycle.
RECURSIVE ppu_dots(_, _)
ppu_dots(s, n) ==
    IF n = 0 \/ s.fault # "none" THEN s
    ELSE IF n = 1 THEN ppu_dot(s)
    ELSE call("ppu_dots", <<call("ppu_dots", <<s, n \div 2>>), n - (n \div 2)>>)

\* step_cycle with one iteration of its loop for each cycle.
Ppu_step_cycle_one_dot(s, count) ==
    LET s1 == call("ppu_dots", <<s, U16(count)>>)
    IN  [s |-> s1, nmi_line |-> ~(s1.ppu.vblank /\ s1.ppu.gen_nmi_at_vblank)]

\* Ppu::step_cycle: [s, nmi_line].
Ppu_step_cycle(s, count) ==
    LET s1 == call("ppu_dots", <<s, U16(count * 3)>>)
    IN  [s |-> s1, nmi_line |-> ~(s1.ppu.vblank /\ s1.ppu.gen_nmi_at_vblank)]

\* read_mem with a read of $2002 that leaves w as it is.
Ppu_read_mem_keeps_w(s, cpu_address) ==
    LET p == s.ppu
    IN  IF cpu_address = 8194
        THEN [s |-> [s EXCEPT !.ppu.vblank = FALSE],
              v |-> (IF p.vblank THEN 128 ELSE 0) + (IF p.sprite0_hit THEN 64 ELSE 0)]
        ELSE IF cpu_address = 8196
        THEN [s |-> s, v |-> IF p.vblank THEN Get(p.oam, 0, p.oam_addr) ELSE 0]
        ELSE IF cpu_address = 8199
        THEN [s |-> [s EXCEPT !.ppu.reg.v = U16(p.reg.v + p.vram_addr_increment)],
              v |-> call("read_mem_ppu", <<s, p.reg.v>>).v]
        ELSE [s |-> s, v |-> 0]

\* Ppu::read_mem: [s, v].
Ppu_read_mem(s, cpu_address) ==
    LET p == s.ppu
    IN  IF cpu_address \in {8192, 8193, 8195, 8197, 8198} THEN [s |-> s, v |-> 0]
        ELSE IF cpu_address = 8194 THEN
            [s |-> IF p.mem_read_mut_enabled
                   THEN [s EXCEPT !.ppu.vblank = FALSE, !.ppu.reg.w = FALSE]
                   ELSE s,
             v |-> (IF p.vblank THEN 128 ELSE 0) + (IF p.sprite0_hit THEN 64 ELSE 0)]
        ELSE IF cpu_address = 8196 THEN
            [s |-> s, v |-> IF p.vblank THEN Get(p.oam, 0, p.oam_addr) ELSE 0]
        ELSE IF cpu_address = 8199 THEN
            IF p.mem_read_mut_enabled THEN
                LET r == call("read_mem_ppu", <<s, p.reg.v>>)
                IN  IF r.fault # "none" THEN [s |-> Fail(s, r.fault), v |-> 0]
                    ELSE [s |-> [s EXCEPT !.ppu.reg.v = U16(p.reg.v + p.vram_addr_increment)],
                          v |-> r.v]
            ELSE [s |-> s, v |-> 0]
        ELSE [s |-> Fail(s, "Unimplemented read address"), v |-> 0]

\* Ppu::write_mem
Ppu_write_mem(s, cpu_address, value) ==
    LET p == s.ppu
        t == p.reg.t
    IN  IF cpu_address = 8192 THEN
            LET s1 == [s EXCEPT
                         !.ppu.vram_addr_increment = IF ~Bit(value, 2) THEN 1 ELSE 32,
                         !.ppu.gen_nmi_at_vblank = Bit(value, 7),
                         !.ppu.reg.t = copy_bits(t, U16(value * 1024), 3072),
                         !.ppu.bg_pattern_table_addr = IF Bit(value, 4) THEN 4096 ELSE 0,
                         !.ppu.sprite_pattern_table_addr = IF Bit(value, 3) THEN 4096 ELSE 0,
                         !.ppu.sprite_height = IF Bit(value, 5) THEN 16 ELSE 8]
            IN  IF s1.ppu.sprite_height # 8 THEN Fail(s1, "unimplemented: sprite height 16")
                ELSE s1
        ELSE IF cpu_address = 8193 THEN
            [s EXCEPT !.ppu.background_leftmost_enabled = Bit(value, 1),
                      !.ppu.sprites_leftmost_enabled = Bit(value, 2),
                      !.ppu.background_enabled = Bit(value, 3),
                      !.ppu.sprites_enabled = Bit(value, 4)]
        ELSE IF cpu_address = 8195 THEN [s EXCEPT !.ppu.oam_addr = value]
        ELSE IF cpu_address = 8196 THEN
            IF p.vblank THEN [s EXCEPT !.ppu.oam = Put(p.oam, 0, p.oam_addr, value)] ELSE s
        ELSE IF cpu_address = 8197 THEN
            IF ~p.reg.w
            THEN [s EXCEPT !.ppu.reg.t = copy_bits(t, value \div 8, 31),
                           !.ppu.reg.x = value % 8,
                           !.ppu.reg.w = TRUE]
            ELSE [s EXCEPT !.ppu.reg.t = copy_bits(copy_bits(t, U16(value * 4096), 28672),
                                                   U16(value * 4), 992),
                           !.ppu.reg.w = FALSE]
        ELSE IF cpu_address = 8198 THEN
            IF ~p.reg.w
            THEN [s EXCEPT !.ppu.reg.t = And(copy_bits(t, U16(value * 256), 16128), 49151),
                           !.ppu.reg.w = TRUE]
            ELSE LET t1 == copy_bits(t, value, 255)
                 IN  [s EXCEPT !.ppu.reg.t = t1, !.ppu.reg.v = t1, !.ppu.reg.w = FALSE]
        ELSE IF cpu_address = 8199 THEN
            LET s1 == call("write_mem_ppu", <<s, p.reg.v, value>>)
            IN  [s1 EXCEPT !.ppu.reg.v = U16(p.reg.v + p.vram_addr_increment)]
        ELSE Fail(s, "Unimplemented write address")

RAM_SIZE == 2048

\* Ppu::perform_dma, with memory the Machine's ram.
perform_dma(s, start_addr) ==
    LET end_addr == U16(start_addr + 256)
    IN  IF start_addr > end_addr \/ end_addr > RAM_SIZE
        THEN Fail(s, "slice index out of range")
        ELSE
            LET oam == [i \in {j \in 0 .. 255 : Get(s.ram, 0, start_addr + j) # 0}
                        |-> s.ram[start_addr + i]]
            IN  call("Ppu_step_cycle", <<[s EXCEPT !.ppu.oam = oam], 513>>).s

---------------------------------------------------------------------------
(* controller.rs                                                           *)

NewController == [key_state |-> [i \in 0 .. 7 |-> FALSE], strobe |-> FALSE, key_index |-> 0]

\* Controller::handle_key_change, for the key with index key.
handle_key_change(c, key, is_pressed) == [c EXCEPT !.key_state[key] = is_pressed]

\* Controller::read_mem: [s, v].
Controller_read_mem(s, cpu_address) ==
    LET c == s.controller
    IN  IF cpu_address = 16406 THEN
            IF c.key_index > 7 THEN [s |-> Fail(s, "key_state index out of range"), v |-> 0]
            ELSE IF c.strobe
            THEN [s |-> s, v |-> IF c.key_state[c.key_index] THEN 1 ELSE 0]
            ELSE [s |-> [s EXCEPT !.controller.key_index = U8(c.key_index + 1)],
                  v |-> IF c.key_state[c.key_index] THEN 1 ELSE 0]
        ELSE IF cpu_address = 16407 THEN [s |-> s, v |-> 0]
        ELSE [s |-> Fail(s, "Unimplemented read address"), v |-> 0]

\* Controller::write_mem
Controller_write_mem(s, cpu_address, value) ==
    IF cpu_address = 16406 THEN
        IF Bit(value, 0)
        THEN [s EXCEPT !.controller.strobe = TRUE, !.controller.key_index = 0]
        ELSE [s EXCEPT !.controller.strobe = FALSE]
    ELSE Fail(s, "Unimplemented write address")

---------------------------------------------------------------------------
(* mod.rs: the bus.  s.writes is the list of the bus writes of the running *)
(* operation and s.edge tells whether one of its calls of step_cycle saw   *)
(* the NMI line fall; s.cycles counts the CPU cycles it forwarded.         *)

\* Machine::step_cycle: [s, nmi_triggered].
Machine_step_cycle(s, count) ==
    LET old_nmi_line == s.nmi_line
        r == call("Ppu_step_cycle", <<s, count>>)
        nmi_triggered == old_nmi_line /\ ~r.nmi_line
    IN  [s |-> [r.s EXCEPT !.nmi_line = r.nmi_line,
                           !.edge = r.s.edge \/ nmi_triggered,
                           !.cycles = r.s.cycles + count],
         nmi_triggered |-> nmi_triggered]

\* Machine::read_mem: [s, v].
Machine_read_mem(s, address) ==
    IF address < 8192 THEN [s |-> s, v |-> Get(s.ram, 0, address % RAM_SIZE)]
    ELSE IF address < 16384 THEN call("Ppu_read_mem", <<s, 8192 + ((address - 8192) % 8)>>)
    ELSE IF address < 16406 THEN [s |-> s, v |-> 255]
    ELSE IF address < 16408 THEN Controller_read_mem(s, address)
    ELSE IF address < 32768 THEN [s |-> s, v |-> 255]
    ELSE
        LET r == call("cart_read_mem_cpu", <<s.cart, address>>)
        IN  [s |-> IF r.fault # "none" THEN Fail(s, r.fault) ELSE s, v |-> r.v]

\* Machine::write_mem
Machine_write_mem(s, address, value) ==
    LET s0 == [s EXCEPT !.writes = Append(s.writes, <<address, value>>)]
    IN  IF address < 8192 THEN [s0 EXCEPT !.ram = Put(s.ram, 0, address % RAM_SIZE, value)]
        ELSE IF address < 16384 THEN call("Ppu_write_mem", <<s0, 8192 + ((address - 8192) % 8), value>>)
        ELSE IF address < 16404 THEN s0
        ELSE IF address = 16404 THEN call("perform_dma", <<s0, value * 256>>)
        ELSE IF address = 16405 THEN s0
        ELSE IF address = 16406 THEN Controller_write_mem(s0, address, value)
        ELSE IF address < 32768 THEN s0
        ELSE
            LET r == cart_write_mem_cpu(s.cart, address, value)
            IN  IF r.fault # "none" THEN Fail(s0, r.fault) ELSE [s0 EXCEPT !.cart = r.c]

---------------------------------------------------------------------------
(* cpu.rs.  s.code holds the three bytes the cartridge has at PC, PC + 1   *)
(* and PC + 2 when the instruction starts.                                 *)

\* Cpu::new
NewCpu ==
    [reg |-> [pc |-> 0, sp |-> 253, a |-> 0, x |-> 0, y |-> 0, status |-> 36],
     nmi_triggered |-> FALSE]

\* Cpu::update_zero_negative, on the value of status.
update_zero_negative(status, value) ==
    set_flag(set_flag(status, Zero, value = 0), Negative, Bit(value, 7))

\* Cpu::get_op: [s, v].
get_op(s, op_index) ==
    LET address == U16(s.cpu.reg.pc + op_index)
    IN  IF address >= 32768 THEN [s |-> s, v |-> s.code[op_index + 1]]
        ELSE call("Machine_read_mem", <<s, address>>)

\* Cpu::get_op_u16: [s, v].
get_op_u16(s) ==
    LET hi == call("get_op", <<s, 2>>)
        lo == call("get_op", <<hi.s, 1>>)
    IN  [s |-> lo.s, v |-> hi.v * 256 + lo.v]

\* Cpu::push
push(s, value) ==
    LET s1 == call("Machine_write_mem", <<s, 256 + s.cpu.reg.sp, value>>)
    IN  [s1 EXCEPT !.cpu.reg.sp = U8(s.cpu.reg.sp - 1)]

\* Cpu::pop: [s, v].
pop(s) ==
    LET sp == U8(s.cpu.reg.sp + 1)
    IN  call("Machine_read_mem", <<[s EXCEPT !.cpu.reg.sp = sp], 256 + sp>>)

\* Cpu::step_cycle
Cpu_step_cycle(s, count) ==
    LET r == call("Machine_step_cycle", <<s, count>>)
    IN  [r.s EXCEPT !.cpu.nmi_triggered = r.nmi_triggered]

\* Cpu::step_pc_and_cycle; counts is <<>> where the arm's match panics.
step_pc_and_cycle(s, counts) ==
    IF counts = <<>> THEN Fail(s, "Unexpected addressing mode")
    ELSE call("Cpu_step_cycle", <<[s EXCEPT !.cpu.reg.pc = U16(s.cpu.reg.pc + counts[1])], counts[2]>>)

\* Cpu::branch_immediate
branch_immediate(s) ==
    LET op == call("get_op", <<s, 1>>)
        offset == I8(op.v)
        old_pc == U16(s.cpu.reg.pc + 2)
        new_pc == U16(I16(old_pc) + offset)
        s1 == call("Cpu_step_cycle", <<[op.s EXCEPT !.cpu.reg.pc = new_pc], 1>>)
    IN  IF old_pc \div 256 # new_pc \div 256 THEN call("Cpu_step_cycle", <<s1, 1>>) ELSE s1

\* Cpu::perform_interrupt
perform_interrupt(s, pcl_addr, pch_addr, write_to_stack) ==
    LET s1 == IF write_to_stack
              THEN LET pch == s.cpu.reg.pc \div 256
                       pcl == s.cpu.reg.pc % 256
                       sa == call("push", <<call("push", <<s, pch>>), pcl>>)
                   IN  call("push", <<sa, sa.cpu.reg.status>>)
              ELSE s
        pch == call("Machine_read_mem", <<s1, pch_addr>>)
        pcl == call("Machine_read_mem", <<pch.s, pcl_addr>>)
    IN  [pcl.s EXCEPT !.cpu.reg.pc = pch.v * 256 + pcl.v]

\* Cpu::reset
reset(s) ==
    LET s1 == call("perform_interrupt", <<s, 4092, 4093, FALSE>>)
        hi == call("Machine_read_mem", <<s1, 65533>>)
        lo == call("Machine_read_mem", <<hi.s, 65532>>)
    IN  [lo.s EXCEPT !.cpu.reg.pc = hi.v * 256 + lo.v]

\* Cpu::get_address: [s, addr, oops].
get_address(s, addr_mode) ==
    LET reg == s.cpu.reg
    IN  CASE addr_mode = "ZeroPage" ->
                 LET o == call("get_op", <<s, 1>>) IN [s |-> o.s, addr |-> o.v, oops |-> 0]
          [] addr_mode = "ZeroPageX" ->
                 LET o == call("get_op", <<s, 1>>) IN [s |-> o.s, addr |-> U8(o.v + reg.x), oops |-> 0]
          [] addr_mode = "ZeroPageY" ->
                 LET o == call("get_op", <<s, 1>>) IN [s |-> o.s, addr |-> U8(o.v + reg.y), oops |-> 0]
          [] addr_mode = "Absolute" ->
                 LET o == call("get_op_u16", <<s>>) IN [s |-> o.s, addr |-> o.v, oops |-> 0]
          [] addr_mode = "AbsoluteX" ->
                 LET o == call("get_op_u16", <<s>>)
                 IN  [s |-> o.s, addr |-> U16(o.v + reg.x),
                      oops |-> IF (o.v % 256) + reg.x > 255 THEN 1 ELSE 0]
          [] addr_mode = "AbsoluteY" ->
                 LET o == call("get_op_u16", <<s>>)
                 IN  [s |-> o.s, addr |-> U16(o.v + reg.y),
                      oops |-> IF (o.v % 256) + reg.y > 255 THEN 1 ELSE 0]
          [] addr_mode = "Indirect" ->
                 LET o == call("get_op_u16", <<s>>)
                     low == call("Machine_read_mem", <<o.s, o.v>>)
                     high == IF o.v % 256 = 255
                             THEN call("Machine_read_mem", <<low.s, U16(o.v + 1 - 256)>>)
                             ELSE call("Machine_read_mem", <<low.s, U16(o.v + 1)>>)
                 IN  [s |-> high.s, addr |-> high.v * 256 + low.v, oops |-> 0]
          [] addr_mode = "IndirectX" ->
                 LET o == call("get_op", <<s, 1>>)
                     address == o.v + reg.x
                     low == call("Machine_read_mem", <<o.s, address % 256>>)
                     high == call("Machine_read_mem", <<low.s, (address + 1) % 256>>)
                 IN  [s |-> high.s, addr |-> high.v * 256 + low.v, oops |-> 0]
          [] addr_mode = "IndirectY" ->
                 LET o == call("get_op", <<s, 1>>)
                     low == call("Machine_read_mem", <<o.s, o.v>>)
                     high == call("Machine_read_mem", <<low.s, (o.v + 1) % 256>>)
                     indirect_address == high.v * 256 + low.v
                 IN  [s |-> high.s, addr |-> U16(indirect_address + reg.y),
                      oops |-> IF reg.y + (indirect_address % 256) > 255 THEN 1 ELSE 0]
          [] OTHER -> [s |-> Fail(s, "Unsupported addressing mode"), addr |-> 0, oops |-> 0]

\* Cpu::get_byte: [s, v, oops].
get_byte(s, addr_mode) ==
    CASE addr_mode = "Implied" -> [s |-> s, v |-> 0, oops |-> 0]
      [] addr_mode = "Accumulator" -> [s |-> s, v |-> s.cpu.reg.a, oops |-> 0]
      [] addr_mode = "Immediate" ->
             LET o == call("get_op", <<s, 1>>) IN [s |-> o.s, v |-> o.v, oops |-> 0]
      [] addr_mode \in {"Absolute", "ZeroPage", "ZeroPageX", "ZeroPageY",
                        "AbsoluteX", "AbsoluteY", "IndirectX", "IndirectY"} ->
             LET g == call("get_address", <<s, addr_mode>>)
                 r == call("Machine_read_mem", <<g.s, g.addr>>)
             IN  [s |-> r.s, v |-> r.v, oops |-> g.oops]
      [] OTHER -> [s |-> Fail(s, "Unsupported addressing mode"), v |-> 0, oops |-> 0]

\* Cpu::set_byte
set_byte(s, addr_mode, value) ==
    CASE addr_mode = "Accumulator" -> [s EXCEPT !.cpu.reg.a = value]
      [] addr_mode \in {"Absolute", "AbsoluteX", "AbsoluteY", "ZeroPage", "ZeroPageX",
                        "ZeroPageY", "IndirectX", "IndirectY"} ->
             LET g == call("get_address", <<s, addr_mode>>)
             IN  call("Machine_write_mem", <<g.s, g.addr, value>>)
      [] OTHER -> Fail(s, "Unsupported addressing mode")

\* Cpu::compute_sbc
compute_sbc(s, a, m) ==
    LET not_c == IF get_status_flag(s, Carry) THEN 0 ELSE 1
        result == U16(U16(a - m) - not_c)
        ac == a % 256
        result_u8 == result % 256
        overflow == Bit(Xor(ac, result_u8), 7) /\ Bit(Xor(ac, m), 7)
        st1 == set_flag(s.cpu.reg.status, Overflow, overflow)
        st2 == set_flag(st1, Carry, result < 256)
    IN  [s EXCEPT !.cpu.reg.a = result_u8,
                  !.cpu.reg.status = update_zero_negative(st2, result_u8)]

\* compute_adc taking no carry in.
compute_adc_without_carry(s, a, m) ==
    LET result == a + m
        st1 == set_flag(s.cpu.reg.status, Carry, result > 255)
        overflow == (Bit(a, 7) /\ Bit(m, 7) /\ ~Bit(result, 7))
                    \/ (~Bit(a, 7) /\ ~Bit(m, 7) /\ Bit(result, 7))
        st2 == set_flag(st1, Overflow, overflow)
    IN  [s EXCEPT !.cpu.reg.a = result % 256,
                  !.cpu.reg.status = update_zero_negative(st2, result % 256)]

\* Cpu::compute_adc
compute_adc(s, a, m) ==
    LET carry == IF get_status_flag(s, Carry) THEN 1 ELSE 0
        result == a + m + carry
        st1 == set_flag(s.cpu.reg.status, Carry, result > 255)
        overflow == (Bit(a, 7) /\ Bit(m, 7) /\ ~Bit(result, 7))
                    \/ (~Bit(a, 7) /\ ~Bit(m, 7) /\ Bit(result, 7))
        st2 == set_flag(st1, Overflow, overflow)
    IN  [s EXCEPT !.cpu.reg.a = result % 256,
                  !.cpu.reg.status = update_zero_negative(st2, result % 256)]

\* execute_instruction, the arm of ORA
arm_ORA(s, addr_mode) ==
    LET r == call("get_byte", <<s, addr_mode>>)
        oops == r.oops
        a == Or(r.s.cpu.reg.a, r.v)
        s1 == [r.s EXCEPT !.cpu.reg.a = a,
                          !.cpu.reg.status = update_zero_negative(r.s.cpu.reg.status, a)]
        counts == CASE addr_mode = "Immediate" -> <<2, 2>>
                    [] addr_mode = "ZeroPage" -> <<2, 3>>
                    [] addr_mode = "ZeroPageX" -> <<2, 4>>
                    [] addr_mode = "Absolute" -> <<3, 4>>
                    [] addr_mode \in {"AbsoluteX", "AbsoluteY"} -> <<3, 4 + oops>>
                    [] addr_mode = "IndirectX" -> <<2, 6>>
                    [] addr_mode = "IndirectY" -> <<2, 5 + oops>>
                    [] OTHER -> <<>>
    IN  call("step_pc_and_cycle", <<s1, counts>>)

\* execute_instruction, the arm of AND
arm_AND(s, addr_mode) ==
    LET r == call("get_byte", <<s, addr_mode>>)
        oops == r.oops
        a == And(r.s.cpu.reg.a, r.v)
        s1 == [r.s EXCEPT !.cpu.reg.a = a,
                          !.cpu.reg.status = update_zero_negative(r.s.cpu.reg.status, a)]
        counts == CASE addr_mode = "Immediate" -> <<2, 2>>
                    [] addr_mode = "ZeroPage" -> <<2, 3>>
                    [] addr_mode = "ZeroPageX" -> <<2, 4>>
                    [] addr_mode = "Absolute" -> <<3, 4>>
                    [] addr_mode \in {"AbsoluteX", "AbsoluteY"} -> <<3, 4 + oops>>
                    [] addr_mode = "IndirectX" -> <<2, 6>>
                    [] addr_mode = "IndirectY" -> <<2, 5 + oops>>
                    [] OTHER -> <<>>
    IN  call("step_pc_and_cycle", <<s1, counts>>)

\* execute_instruction, the arm of EOR
arm_EOR(s, addr_mode) ==
    LET r == call("get_byte", <<s, addr_mode>>)
        oops == r.oops
        a == Xor(r.s.cpu.reg.a, r.v)
        s1 == [r.s EXCEPT !.cpu.reg.a = a,
                          !.cpu.reg.status = update_zero_negative(r.s.cpu.reg.status, a)]
        counts == CASE addr_mode = "Immediate" -> <<2, 2>>
                    [] addr_mode = "ZeroPage" -> <<2, 3>>
                    [] addr_mode = "ZeroPageX" -> <<2, 4>>
                    [] addr_mode = "Absolute" -> <<3, 4>>
                    [] addr_mode \in {"AbsoluteX", "AbsoluteY"} -> <<3, 4 + oops>>
                    [] addr_mode = "IndirectX" -> <<2, 6>>
                    [] addr_mode = "IndirectY" -> <<2, 5 + oops>>
                    [] OTHER -> <<>>
    IN  call("step_pc_and_cycle", <<s1, counts>>)

\* execute_instruction, the arm of LDA
arm_LDA(s, addr_mode) ==
    LET r == call("get_byte", <<s, addr_mode>>)
        oops == r.oops
        s1 == [r.s EXCEPT !.cpu.reg.a = r.v,
                          !.cpu.reg.status = update_zero_negative(r.s.cpu.reg.status, r.v)]
        counts == CASE addr_mode = "Immediate" -> <<2, 2>>
                    [] addr_mode = "ZeroPage" -> <<2, 3>>
                    [] addr_mode = "ZeroPageX" -> <<2, 4>>
                    [] addr_mode = "Absolute" -> <<3, 4>>
                    [] addr_mode \in {"AbsoluteX", "AbsoluteY"} -> <<3, 4 + oops>>
                    [] addr_mode = "IndirectX" -> <<2, 6>>
                    [] addr_mode = "IndirectY" -> <<2, 5 + oops>>
                    [] OTHER -> <<>>
    IN  call("step_pc_and_cycle", <<s1, counts>>)

\* execute_instruction, the arm of LDX
arm_LDX(s, addr_mode) ==
    LET r == call("get_byte", <<s, addr_mode>>)
        oops == r.oops
        s1 == [r.s EXCEPT !.cpu.reg.x = r.v,
                          !.cpu.reg.status = update_zero_negative(r.s.cpu.reg.status, r.v)]
        counts == CASE addr_mode = "Immediate" -> <<2, 2>>
                    [] addr_mode = "ZeroPage" -> <<2, 3>>
                    [] addr_mode = "ZeroPageY" -> <<2, 4>>
                    [] addr_mode = "Absolute" -> <<3, 4>>
                    [] addr_mode = "AbsoluteY" -> <<3, 4 + oops>>
                    [] OTHER -> <<>>
    IN  call("step_pc_and_cycle", <<s1, counts>>)

\* execute_instruction, the arm of LDY
arm_LDY(s, addr_mode) ==
    LET r == call("get_byte", <<s, addr_mode>>)
        oops == r.oops
        s1 == [r.s EXCEPT !.cpu.reg.y = r.v,
                          !.cpu.reg.status = update_zero_negative(r.s.cpu.reg.status, r.v)]
        counts == CASE addr_mode = "Immediate" -> <<2, 2>>
                    [] addr_mode = "ZeroPage" -> <<2, 3>>
                    [] addr_mode = "ZeroPageX" -> <<2, 4>>
                    [] addr_mode = "Absolute" -> <<3, 4>>
                    [] addr_mode = "AbsoluteX" -> <<3, 4 + oops>>
                    [] OTHER -> <<>>
    IN  call("step_pc_and_cycle", <<s1, counts>>)

\* execute_instruction, the arm of the unofficial LAX
arm_LAX(s, addr_mode) ==
    LET r == call("get_byte", <<s, addr_mode>>)
        oops == r.oops
        s1 == [r.s EXCEPT !.cpu.reg.a = r.v, !.cpu.reg.x = r.v,
                          !.cpu.reg.status = update_zero_negative(r.s.cpu.reg.status, r.v)]
        counts == CASE addr_mode = "ZeroPage" -> <<2, 3>>
                    [] addr_mode = "ZeroPageY" -> <<2, 4>>
                    [] addr_mode = "IndirectX" -> <<2, 6>>
                    [] addr_mode = "IndirectY" -> <<2, 5 + oops>>
                    [] addr_mode = "Absolute" -> <<3, 4>>
                    [] addr_mode = "AbsoluteY" -> <<3, 4 + oops>>
                    [] OTHER -> <<>>
    IN  call("step_pc_and_cycle", <<s1, counts>>)

\* execute_instruction, the arm of CMP
arm_CMP(s, addr_mode) ==
    LET r == call("get_byte", <<s, addr_mode>>)
        oops == r.oops
        m == r.v
        result == U8(r.s.cpu.reg.a - m)
        st == set_flag(r.s.cpu.reg.status, Carry, r.s.cpu.reg.a >= m)
        s1 == [r.s EXCEPT !.cpu.reg.status = update_zero_negative(st, result)]
        counts == CASE addr_mode = "Immediate" -> <<2, 2>>
                    [] addr_mode = "ZeroPage" -> <<2, 3>>
                    [] addr_mode = "ZeroPageX" -> <<2, 4>>
                    [] addr_mode = "Absolute" -> <<3, 4>>
                    [] addr_mode \in {"AbsoluteX", "AbsoluteY"} -> <<3, 4 + oops>>
                    [] addr_mode = "IndirectX" -> <<2, 6>>
                    [] addr_mode = "IndirectY" -> <<2, 5 + oops>>
                    [] OTHER -> <<>>
    IN  call("step_pc_and_cycle", <<s1, counts>>)

\* execute_instruction, the arm of CPX
arm_CPX(s, addr_mode) ==
    LET r == call("get_byte", <<s, addr_mode>>)
        oops == r.oops
        m == r.v
        result == U8(r.s.cpu.reg.x - m)
        st == set_flag(r.s.cpu.reg.status, Carry, r.s.cpu.reg.x >= m)
        s1 == [r.s EXCEPT !.cpu.reg.status = update_zero_negative(st, result)]
        counts == CASE addr_mode = "Immediate" -> <<2, 2>>
                    [] addr_mode = "ZeroPage" -> <<2, 3>>
                    [] addr_mode = "Absolute" -> <<3, 4>>
                    [] OTHER -> <<>>
    IN  call("step_pc_and_cycle", <<s1, counts>>)

\* execute_instruction, the arm of CPY
arm_CPY(s, addr_mode) ==
    LET r == call("get_byte", <<s, addr_mode>>)
        oops == r.oops
        m == r.v
        result == U8(r.s.cpu.reg.y - m)
        st == set_flag(r.s.cpu.reg.status, Carry, r.s.cpu.reg.y >= m)
        s1 == [r.s EXCEPT !.cpu.reg.status = update_zero_negative(st, result)]
        counts == CASE addr_mode = "Immediate" -> <<2, 2>>
                    [] addr_mode = "ZeroPage" -> <<2, 3>>
                    [] addr_mode = "Absolute" -> <<3, 4>>
                    [] OTHER -> <<>>
    IN  call("step_pc_and_cycle", <<s1, counts>>)

\* execute_instruction, the arm of BIT
arm_BIT(s, addr_mode) ==
    LET r == call("get_byte", <<s, addr_mode>>)
        value == r.v
        mask == And(r.s.cpu.reg.a, value)
        st1 == set_flag(r.s.cpu.reg.status, Zero, mask = 0)
        st2 == set_flag(st1, Overflow, Bit(value, 6))
        st3 == set_flag(st2, Negative, Bit(value, 7))
        s1 == [r.s EXCEPT !.cpu.reg.status = st3]
        counts == CASE addr_mode = "ZeroPage" -> <<2, 3>>
                    [] addr_mode = "Absolute" -> <<3, 4>>
                    [] OTHER -> <<>>
    IN  call("step_pc_and_cycle", <<s1, counts>>)

\* execute_instruction, the arm of ADC
arm_ADC(s, addr_mode) ==
    LET a == s.cpu.reg.a
        r == call("get_byte", <<s, addr_mode>>)
        oops == r.oops
        s1 == compute_adc(r.s, a, r.v)
        counts == CASE addr_mode = "Immediate" -> <<2, 2>>
                    [] addr_mode = "ZeroPage" -> <<2, 3>>
                    [] addr_mode = "ZeroPageX" -> <<2, 4>>
                    [] addr_mode = "Absolute" -> <<3, 4>>
                    [] addr_mode \in {"AbsoluteX", "AbsoluteY"} -> <<3, 4 + oops>>
                    [] addr_mode = "IndirectX" -> <<2, 6>>
                    [] addr_mode = "IndirectY" -> <<2, 5 + oops>>
                    [] OTHER -> <<>>
    IN  call("step_pc_and_cycle", <<s1, counts>>)

\* execute_instruction, the arm of SBC
arm_SBC(s, addr_mode) ==
    LET a == s.cpu.reg.a
        r == call("get_byte", <<s, addr_mode>>)
        oops == r.oops
        s1 == compute_sbc(r.s, a, r.v)
        counts == CASE addr_mode = "Immediate" -> <<2, 2>>
                    [] addr_mode = "ZeroPage" -> <<2, 3>>
                    [] addr_mode = "ZeroPageX" -> <<2, 4>>
                    [] addr_mode = "Absolute" -> <<3, 4>>
                    [] addr_mode \in {"AbsoluteX", "AbsoluteY"} -> <<3, 4 + oops>>
                    [] addr_mode = "IndirectX" -> <<2, 6>>
                    [] addr_mode = "IndirectY" -> <<2, 5 + oops>>
                    [] OTHER -> <<>>
    IN  call("step_pc_and_cycle", <<s1, counts>>)

\* execute_instruction, the arm of NOP
arm_NOP(s, addr_mode) ==
    LET r == call("get_byte", <<s, addr_mode>>)
        oops == r.oops
        counts == CASE addr_mode = "Implied" -> <<1, 2>>
                    [] addr_mode = "Immediate" -> <<2, 2>>
                    [] addr_mode \in {"AbsoluteX", "AbsoluteY"} -> <<3, 4 + oops>>
                    [] addr_mode = "ZeroPage" -> <<2, 3>>
                    [] addr_mode = "ZeroPageX" -> <<2, 4>>
                    [] addr_mode = "Absolute" -> <<3, 4>>
                    [] OTHER -> <<>>
    IN  call("step_pc_and_cycle", <<r.s, counts>>)

\* execute_instruction, the arm of ASL
arm_ASL(s, addr_mode) ==
    LET r == call("get_byte", <<s, addr_mode>>)
        carry == Bit(r.v, 7)
        value == U8(r.v * 2)
        st == set_flag(r.s.cpu.reg.status, Carry, carry)
        s1 == [r.s EXCEPT !.cpu.reg.status = update_zero_negative(st, value)]
        s2 == call("set_byte", <<s1, addr_mode, value>>)
        counts == CASE addr_mode = "Accumulator" -> <<1, 2>>
                    [] addr_mode = "ZeroPage" -> <<2, 5>>
                    [] addr_mode = "ZeroPageX" -> <<2, 6>>
                    [] addr_mode = "Absolute" -> <<3, 6>>
                    [] addr_mode = "AbsoluteX" -> <<3, 7>>
                    [] OTHER -> <<>>
    IN  call("step_pc_and_cycle", <<s2, counts>>)

\* execute_instruction, the arm of ROL
arm_ROL(s, addr_mode) ==
    LET r == call("get_byte", <<s, addr_mode>>)
        carry == Bit(r.v, 7)
        value == Or(U8(r.v * 2), IF get_status_flag(r.s, Carry) THEN 1 ELSE 0)
        st == set_flag(r.s.cpu.reg.status, Carry, carry)
        s1 == [r.s EXCEPT !.cpu.reg.status = update_zero_negative(st, value)]
        s2 == call("set_byte", <<s1, addr_mode, value>>)
        counts == CASE addr_mode = "Accumulator" -> <<1, 2>>
                    [] addr_mode = "ZeroPage" -> <<2, 5>>
                    [] addr_mode = "ZeroPageX" -> <<2, 6>>
                    [] addr_mode = "Absolute" -> <<3, 6>>
                    [] addr_mode = "AbsoluteX" -> <<3, 7>>
                    [] OTHER -> <<>>
    IN  call("step_pc_and_cycle", <<s2, counts>>)

\* execute_instruction, the arm of LSR
arm_LSR(s, addr_mode) ==
    LET r == call("get_byte", <<s, addr_mode>>)
        carry == Bit(r.v, 0)
        value == r.v \div 2
        st == set_flag(r.s.cpu.reg.status, Carry, carry)
        s1 == [r.s EXCEPT !.cpu.reg.status = update_zero_negative(st, value)]
        s2 == call("set_byte", <<s1, addr_mode, value>>)
        counts == CASE addr_mode = "Accumulator" -> <<1, 2>>
                    [] addr_mode = "ZeroPage" -> <<2, 5>>
                    [] addr_mode = "ZeroPageX" -> <<2, 6>>
                    [] addr_mode = "Absolute" -> <<3, 6>>
                    [] addr_mode = "AbsoluteX" -> <<3, 7>>
                    [] OTHER -> <<>>
    IN  call("step_pc_and_cycle", <<s2, counts>>)

\* execute_instruction, the arm of ROR
arm_ROR(s, addr_mode) ==
    LET r == call("get_byte", <<s, addr_mode>>)
        carry == Bit(r.v, 0)
        value == Or(r.v \div 2, IF get_status_flag(r.s, Carry) THEN 128 ELSE 0)
        st == set_flag(r.s.cpu.reg.status, Carry, carry)
        s1 == [r.s EXCEPT !.cpu.reg.status = update_zero_negative(st, value)]
        s2 == call("set_byte", <<s1, addr_mode, value>>)
        counts == CASE addr_mode = "Accumulator" -> <<1, 2>>
                    [] addr_mode = "ZeroPage" -> <<2, 5>>
                    [] addr_mode = "ZeroPageX" -> <<2, 6>>
                    [] addr_mode = "Absolute" -> <<3, 6>>
                    [] addr_mode = "AbsoluteX" -> <<3, 7>>
                    [] OTHER -> <<>>
    IN  call("step_pc_and_cycle", <<s2, counts>>)

\* execute_instruction, the arm of the unofficial SLO
arm_SLO(s, addr_mode) ==
    LET r == call("get_byte", <<s, addr_mode>>)
        oops == r.oops
        carry == Bit(r.v, 7)
        value == U8(r.v * 2)
        st == set_flag(r.s.cpu.reg.status, Carry, carry)
        a == Or(r.s.cpu.reg.a, value)
        s1 == [r.s EXCEPT !.cpu.reg.a = a, !.cpu.reg.status = update_zero_negative(st, a)]
        s2 == call("set_byte", <<s1, addr_mode, value>>)
        counts == CASE addr_mode = "ZeroPage" -> <<2, 5>>
                    [] addr_mode = "ZeroPageX" -> <<2, 6>>
                    [] addr_mode = "Absolute" -> <<3, 6>>
                    [] addr_mode \in {"AbsoluteX", "AbsoluteY"} -> <<3, 6 + oops>>
                    [] addr_mode = "IndirectX" -> <<2, 8>>
                    [] addr_mode = "IndirectY" -> <<2, 7 + oops>>
                    [] OTHER -> <<>>
    IN  call("step_pc_and_cycle", <<s2, counts>>)

\* execute_instruction, the arm of the unofficial RLA
arm_RLA(s, addr_mode) ==
    LET r == call("get_byte", <<s, addr_mode>>)
        oops == r.oops
        carry == Bit(r.v, 7)
        value == Or(U8(r.v * 2), IF get_status_flag(r.s, Carry) THEN 1 ELSE 0)
        s1 == [r.s EXCEPT !.cpu.reg.status = set_flag(r.s.cpu.reg.status, Carry, carry)]
        s2 == call("set_byte", <<s1, addr_mode, value>>)
        a == And(s2.cpu.reg.a, value)
        s3 == [s2 EXCEPT !.cpu.reg.a = a,
                         !.cpu.reg.status = update_zero_negative(s2.cpu.reg.status, a)]
        counts == CASE addr_mode = "ZeroPage" -> <<2, 5>>
                    [] addr_mode = "ZeroPageX" -> <<2, 6>>
                    [] addr_mode = "Absolute" -> <<3, 6>>
                    [] addr_mode \in {"AbsoluteX", "AbsoluteY"} -> <<3, 6 + oops>>
                    [] addr_mode = "IndirectX" -> <<2, 8>>
                    [] addr_mode = "IndirectY" -> <<2, 7 + oops>>
                    [] OTHER -> <<>>
    IN  call("step_pc_and_cycle", <<s3, counts>>)

\* execute_instruction, the arm of the unofficial SRE
arm_SRE(s, addr_mode) ==
    LET r == call("get_byte", <<s, addr_mode>>)
        oops == r.oops
        carry == Bit(r.v, 0)
        value == r.v \div 2
        s1 == [r.s EXCEPT !.cpu.reg.status = set_flag(r.s.cpu.reg.status, Carry, carry)]
        s2 == call("set_byte", <<s1, addr_mode, value>>)
        a == Xor(s2.cpu.reg.a, value)
        s3 == [s2 EXCEPT !.cpu.reg.a = a,
                         !.cpu.reg.status = update_zero_negative(s2.cpu.reg.status, a)]
        counts == CASE addr_mode = "ZeroPage" -> <<2, 5>>
                    [] addr_mode = "ZeroPageX" -> <<2, 6>>
                    [] addr_mode = "Absolute" -> <<3, 6>>
                    [] addr_mode \in {"AbsoluteX", "AbsoluteY"} -> <<3, 6 + oops>>
                    [] addr_mode = "IndirectX" -> <<2, 8>>
                    [] addr_mode = "IndirectY" -> <<2, 7 + oops>>
                    [] OTHER -> <<>>
    IN  call("step_pc_and_cycle", <<s3, counts>>)

\* execute_instruction, the arm of the unofficial RRA
arm_RRA(s, addr_mode) ==
    LET r == call("get_byte", <<s, addr_mode>>)
        oops == r.oops
        new_carry == Bit(r.v, 0)
        value == Or(r.v \div 2, IF get_status_flag(r.s, Carry) THEN 128 ELSE 0)
        s1 == [r.s EXCEPT !.cpu.reg.status = set_flag(r.s.cpu.reg.status, Carry, new_carry)]
        s2 == call("set_byte", <<s1, addr_mode, value>>)
        s3 == compute_adc(s2, s2.cpu.reg.a, value)
        counts == CASE addr_mode = "ZeroPage" -> <<2, 5>>
                    [] addr_mode = "ZeroPageX" -> <<2, 6>>
                    [] addr_mode = "Absolute" -> <<3, 6>>
                    [] addr_mode \in {"AbsoluteX", "AbsoluteY"} -> <<3, 6 + oops>>
                    [] addr_mode = "IndirectX" -> <<2, 8>>
                    [] addr_mode = "IndirectY" -> <<2, 7 + oops>>
                    [] OTHER -> <<>>
    IN  call("step_pc_and_cycle", <<s3, counts>>)

\* execute_instruction, the arm of the unofficial DCP
arm_DCP(s, addr_mode) ==
    LET r == call("get_byte", <<s, addr_mode>>)
        oops == r.oops
        m == U8(r.v - 1)
        s1 == call("set_byte", <<r.s, addr_mode, m>>)
        result == U8(s1.cpu.reg.a - m)
        st == set_flag(s1.cpu.reg.status, Carry, s1.cpu.reg.a >= m)
        s2 == [s1 EXCEPT !.cpu.reg.status = update_zero_negative(st, result)]
        counts == CASE addr_mode = "ZeroPage" -> <<2, 5>>
                    [] addr_mode = "ZeroPageX" -> <<2, 6>>
                    [] addr_mode = "Absolute" -> <<3, 6>>
                    [] addr_mode \in {"AbsoluteX", "AbsoluteY"} -> <<3, 6 + oops>>
                    [] addr_mode = "IndirectX" -> <<2, 8>>
                    [] addr_mode = "IndirectY" -> <<2, 7 + oops>>
                    [] OTHER -> <<>>
    IN  call("step_pc_and_cycle", <<s2, counts>>)

\* execute_instruction, the arm of the unofficial ISB
arm_ISB(s, addr_mode) ==
    LET a == s.cpu.reg.a
        r == call("get_byte", <<s, addr_mode>>)
        oops == r.oops
        m == U8(r.v + 1)
        s1 == call("set_byte", <<r.s, addr_mode, m>>)
        s2 == compute_sbc(s1, a, m)
        counts == CASE addr_mode = "ZeroPage" -> <<2, 5>>
                    [] addr_mode = "ZeroPageX" -> <<2, 6>>
                    [] addr_mode = "IndirectX" -> <<2, 8>>
                    [] addr_mode = "IndirectY" -> <<2, 7 + oops>>
                    [] addr_mode = "Absolute" -> <<3, 6>>
                    [] addr_mode \in {"AbsoluteX", "AbsoluteY"} -> <<3, 6 + oops>>
                    [] OTHER -> <<>>
    IN  call("step_pc_and_cycle", <<s2, counts>>)

\* execute_instruction, the arm of DEC
arm_DEC(s, addr_mode) ==
    LET r == call("get_byte", <<s, addr_mode>>)
        m == U8(r.v - 1)
        s1 == call("set_byte", <<r.s, addr_mode, m>>)
        s2 == [s1 EXCEPT !.cpu.reg.status = update_zero_negative(s1.cpu.reg.status, m)]
        counts == CASE addr_mode = "ZeroPage" -> <<2, 5>>
                    [] addr_mode = "ZeroPageX" -> <<2, 6>>
                    [] addr_mode = "Absolute" -> <<3, 6>>
                    [] addr_mode = "AbsoluteX" -> <<3, 7>>
                    [] OTHER -> <<>>
    IN  call("step_pc_and_cycle", <<s2, counts>>)

\* execute_instruction, the arm of INC
arm_INC(s, addr_mode) ==
    LET r == call("get_byte", <<s, addr_mode>>)
        m == U8(r.v + 1)
        s1 == call("set_byte", <<r.s, addr_mode, m>>)
        s2 == [s1 EXCEPT !.cpu.reg.status = update_zero_negative(s1.cpu.reg.status, m)]
        counts == CASE addr_mode = "ZeroPage" -> <<2, 5>>
                    [] addr_mode = "ZeroPageX" -> <<2, 6>>
                    [] addr_mode = "Absolute" -> <<3, 6>>
                    [] addr_mode = "AbsoluteX" -> <<3, 7>>
                    [] OTHER -> <<>>
    IN  call("step_pc_and_cycle", <<s2, counts>>)

\* execute_instruction, the arm of STA
arm_STA(s, addr_mode) ==
    LET g == call("get_address", <<s, addr_mode>>)
        value == g.s.cpu.reg.a
        s1 == call("Machine_write_mem", <<g.s, g.addr, value>>)
        counts == CASE addr_mode = "ZeroPage" -> <<2, 3>>
                    [] addr_mode = "ZeroPageX" -> <<2, 4>>
                    [] addr_mode = "Absolute" -> <<3, 4>>
                    [] addr_mode \in {"AbsoluteX", "AbsoluteY"} -> <<3, 5>>
                    [] addr_mode = "IndirectX" -> <<2, 6>>
                    [] addr_mode = "IndirectY" -> <<2, 6>>
                    [] OTHER -> <<>>
    IN  call("step_pc_and_cycle", <<s1, counts>>)

\* execute_instruction, the arm of the unofficial SAX
arm_SAX(s, addr_mode) ==
    LET g == call("get_address", <<s, addr_mode>>)
        value == And(g.s.cpu.reg.a, g.s.cpu.reg.x)
        s1 == call("Machine_write_mem", <<g.s, g.addr, value>>)
        counts == CASE addr_mode = "ZeroPage" -> <<2, 3>>
                    [] addr_mode = "ZeroPageY" -> <<2, 4>>
                    [] addr_mode = "Absolute" -> <<3, 4>>
                    [] addr_mode = "IndirectX" -> <<2, 6>>
                    [] OTHER -> <<>>
    IN  call("step_pc_and_cycle", <<s1, counts>>)

\* execute_instruction, the arm of STY
arm_STY(s, addr_mode) ==
    LET g == call("get_address", <<s, addr_mode>>)
        value == g.s.cpu.reg.y
        s1 == call("Machine_write_mem", <<g.s, g.addr, value>>)
        counts == CASE addr_mode = "ZeroPage" -> <<2, 3>>
                    [] addr_mode = "ZeroPageX" -> <<2, 4>>
                    [] addr_mode = "Absolute" -> <<3, 4>>
                    [] OTHER -> <<>>
    IN  call("step_pc_and_cycle", <<s1, counts>>)

\* execute_instruction, the arm of STX
arm_STX(s, addr_mode) ==
    LET g == call("get_address", <<s, addr_mode>>)
        value == g.s.cpu.reg.x
        s1 == call("Machine_write_mem", <<g.s, g.addr, value>>)
        counts == CASE addr_mode = "ZeroPage" -> <<2, 3>>
                    [] addr_mode = "ZeroPageY" -> <<2, 4>>
                    [] addr_mode = "Absolute" -> <<3, 4>>
                    [] OTHER -> <<>>
    IN  call("step_pc_and_cycle", <<s1, counts>>)

\* execute_instruction, the arm of JMP
arm_JMP(s, addr_mode) ==
    LET g == call("get_address", <<s, addr_mode>>)
        s1 == [g.s EXCEPT !.cpu.reg.pc = g.addr]
        counts == CASE addr_mode = "Absolute" -> <<0, 3>>
                    [] addr_mode = "Indirect" -> <<0, 5>>
                    [] OTHER -> <<>>
    IN  call("step_pc_and_cycle", <<s1, counts>>)

\* execute_instruction, the arm of PHP
arm_PHP(s) ==
    LET value == Or(s.cpu.reg.status, 16)
        s1 == call("push", <<s, value>>)
    IN  call("Cpu_step_cycle", <<[s1 EXCEPT !.cpu.reg.pc = U16(s1.cpu.reg.pc + 1)], 3>>)

\* The arm of PLP taking all eight bits from the stack.
arm_PLP_all_bits(s) ==
    LET p == call("pop", <<s>>)
    IN  call("Cpu_step_cycle", <<[p.s EXCEPT !.cpu.reg.status = p.v,
                                   !.cpu.reg.pc = U16(p.s.cpu.reg.pc + 1)], 4>>)

\* execute_instruction, the arm of PLP
arm_PLP(s) ==
    LET p == call("pop", <<s>>)
        value == And(p.v, 207)
        status == Or(And(p.s.cpu.reg.status, 48), value)
    IN  call("Cpu_step_cycle", <<[p.s EXCEPT !.cpu.reg.status = status,
                                   !.cpu.reg.pc = U16(p.s.cpu.reg.pc + 1)], 4>>)

\* execute_instruction, the arm of PHA
arm_PHA(s) ==
    LET s1 == call("push", <<s, s.cpu.reg.a>>)
    IN  call("Cpu_step_cycle", <<[s1 EXCEPT !.cpu.reg.pc = U16(s1.cpu.reg.pc + 1)], 3>>)

\* execute_instruction, the arm of PLA
arm_PLA(s) ==
    LET p == call("pop", <<s>>)
    IN  call("Cpu_step_cycle", <<
            [p.s EXCEPT !.cpu.reg.a = p.v,
                        !.cpu.reg.status = update_zero_negative(p.s.cpu.reg.status, p.v),
                        !.cpu.reg.pc = U16(p.s.cpu.reg.pc + 1)], 4>>)

\* execute_instruction, the arm of JSR
arm_JSR(s) ==
    LET return_addr == U16(s.cpu.reg.pc + 2)
        s1 == call("push", <<call("push", <<s, return_addr \div 256>>), return_addr % 256>>)
        hi == call("get_op", <<s1, 2>>)
        lo == call("get_op", <<hi.s, 1>>)
    IN  call("Cpu_step_cycle", <<[lo.s EXCEPT !.cpu.reg.pc = U16(hi.v * 256 + lo.v)], 6>>)

arm_RTS_no_increment(s) ==
    LET low == call("pop", <<s>>)
        high == call("pop", <<low.s>>)
    IN  call("Cpu_step_cycle", <<[high.s EXCEPT !.cpu.reg.pc = high.v * 256 + low.v], 6>>)

\* execute_instruction, the arm of RTS
arm_RTS(s) ==
    LET low == call("pop", <<s>>)
        high == call("pop", <<low.s>>)
        return_addr == high.v * 256 + low.v
    IN  call("Cpu_step_cycle", <<[high.s EXCEPT !.cpu.reg.pc = U16(return_addr + 1)], 6>>)

\* execute_instruction, the arm of RTI
arm_RTI(s) ==
    LET p == call("pop", <<s>>)
        status == Or(And(p.s.cpu.reg.status, 48), And(p.v, 207))
        pcl == call("pop", <<[p.s EXCEPT !.cpu.reg.status = status]>>)
        pch == call("pop", <<pcl.s>>)
    IN  call("Cpu_step_cycle", <<[pch.s EXCEPT !.cpu.reg.pc = pch.v * 256 + pcl.v], 6>>)

\* execute_instruction, the arms of BPL, BMI, BVC, BVS, BCC, BCS, BNE and BEQ,
\* with taken the arm's test of the status flag.
arm_branch(s, taken) ==
    LET s1 == IF taken THEN branch_immediate(s)
              ELSE [s EXCEPT !.cpu.reg.pc = U16(s.cpu.reg.pc + 2)]
    IN  call("Cpu_step_cycle", <<s1, 2>>)

\* execute_instruction, the arms of CLC, SEC, SEI, CLV, CLD and SED.
arm_flag(s, flag, enabled) ==
    call("Cpu_step_cycle", <<[s EXCEPT !.cpu.reg.status = set_flag(s.cpu.reg.status, flag, enabled),
                             !.cpu.reg.pc = U16(s.cpu.reg.pc + 1)], 2>>)

\* execute_instruction, the arms of DEY, TXA, TYA, TAY, TAX, TSX, INY, DEX and
\* INX, with value the arm's new value of the register r.
arm_register(s, r, value) ==
    call("Cpu_step_cycle", <<[s EXCEPT !.cpu.reg[r] = value,
                             !.cpu.reg.status = update_zero_negative(s.cpu.reg.status, value),
                             !.cpu.reg.pc = U16(s.cpu.reg.pc + 1)], 2>>)

\* execute_instruction, the arm of TXS
arm_TXS(s) ==
    call("Cpu_step_cycle", <<[s EXCEPT !.cpu.reg.sp = s.cpu.reg.x,
                             !.cpu.reg.pc = U16(s.cpu.reg.pc + 1)], 2>>)

\* The match of execute_instruction on op_code.
dispatch(s, op_code, addr_mode) ==
    CASE op_code \in {1, 5, 9, 13, 17, 21, 25, 29} -> arm_ORA(s, addr_mode)
          [] op_code \in {3, 7, 15, 19, 23, 27, 31} -> arm_SLO(s, addr_mode)
          [] op_code \in {6, 10, 14, 22, 30} -> arm_ASL(s, addr_mode)
          [] op_code = 8 -> arm_PHP(s)
          [] op_code = 16 -> call("arm_branch", <<s, ~get_status_flag(s, Negative)>>)
          [] op_code = 24 -> call("arm_flag", <<s, Carry, FALSE>>)
          [] op_code = 32 -> arm_JSR(s)
          [] op_code \in {36, 44} -> arm_BIT(s, addr_mode)
          [] op_code = 40 -> arm_PLP(s)
          [] op_code \in {33, 37, 41, 45, 49, 53, 57, 61} -> arm_AND(s, addr_mode)
          [] op_code \in {35, 39, 47, 51, 55, 59, 63} -> arm_RLA(s, addr_mode)
          [] op_code \in {38, 42, 46, 54, 62} -> arm_ROL(s, addr_mode)
          [] op_code = 48 -> call("arm_branch", <<s, get_status_flag(s, Negative)>>)
          [] op_code = 56 -> call("arm_flag", <<s, Carry, TRUE>>)
          [] op_code = 64 -> arm_RTI(s)
          [] op_code = 72 -> arm_PHA(s)
          [] op_code \in {76, 108} -> arm_JMP(s, addr_mode)
          [] op_code \in {65, 69, 73, 77, 81, 85, 89, 93} -> arm_EOR(s, addr_mode)
          [] op_code \in {67, 71, 79, 83, 87, 91, 95} -> arm_SRE(s, addr_mode)
          [] op_code \in {70, 74, 78, 86, 94} -> arm_LSR(s, addr_mode)
          [] op_code = 80 -> call("arm_branch", <<s, ~get_status_flag(s, Overflow)>>)
          [] op_code = 96 -> arm_RTS(s)
          [] op_code = 104 -> arm_PLA(s)
          [] op_code \in {97, 101, 105, 109, 113, 117, 121, 125} -> arm_ADC(s, addr_mode)
          [] op_code \in {99, 103, 111, 115, 119, 123, 127} -> arm_RRA(s, addr_mode)
          [] op_code \in {102, 106, 110, 118, 126} -> arm_ROR(s, addr_mode)
          [] op_code = 112 -> call("arm_branch", <<s, get_status_flag(s, Overflow)>>)
          [] op_code = 120 -> call("arm_flag", <<s, InterruptDisable, TRUE>>)
          [] op_code \in {129, 133, 141, 145, 149, 153, 157} -> arm_STA(s, addr_mode)
          [] op_code \in {131, 135, 143, 151} -> arm_SAX(s, addr_mode)
          [] op_code \in {132, 140, 148} -> arm_STY(s, addr_mode)
          [] op_code \in {134, 142, 150} -> arm_STX(s, addr_mode)
          [] op_code = 136 -> call("arm_register", <<s, "y", U8(s.cpu.reg.y - 1)>>)
          [] op_code = 138 -> call("arm_register", <<s, "a", s.cpu.reg.x>>)
          [] op_code = 144 -> call("arm_branch", <<s, ~get_status_flag(s, Carry)>>)
          [] op_code = 152 -> call("arm_register", <<s, "a", s.cpu.reg.y>>)
          [] op_code = 154 -> arm_TXS(s)
          [] op_code \in {160, 164, 172, 180, 188} -> arm_LDY(s, addr_mode)
          [] op_code \in {162, 166, 174, 182, 190} -> arm_LDX(s, addr_mode)
          [] op_code \in {163, 167, 175, 179, 183, 191} -> arm_LAX(s, addr_mode)
          [] op_code = 168 -> call("arm_register", <<s, "y", s.cpu.reg.a>>)
          [] op_code \in {161, 165, 169, 173, 177, 181, 185, 189} -> arm_LDA(s, addr_mode)
          [] op_code = 170 -> call("arm_register", <<s, "x", s.cpu.reg.a>>)
          [] op_code = 176 -> call("arm_branch", <<s, get_status_flag(s, Carry)>>)
          [] op_code = 184 -> call("arm_flag", <<s, Overflow, FALSE>>)
          [] op_code = 186 -> call("arm_register", <<s, "x", s.cpu.reg.sp>>)
          [] op_code \in {192, 196, 204} -> arm_CPY(s, addr_mode)
          [] op_code = 200 -> call("arm_register", <<s, "y", U8(s.cpu.reg.y + 1)>>)
          [] op_code \in {193, 197, 201, 205, 209, 213, 217, 221} -> arm_CMP(s, addr_mode)
          [] op_code \in {195, 199, 207, 211, 215, 219, 223} -> arm_DCP(s, addr_mode)
          [] op_code \in {198, 206, 214, 222} -> arm_DEC(s, addr_mode)
          [] op_code = 202 -> call("arm_register", <<s, "x", U8(s.cpu.reg.x - 1)>>)
          [] op_code = 208 -> call("arm_branch", <<s, ~get_status_flag(s, Zero)>>)
          [] op_code = 216 -> call("arm_flag", <<s, DecimalMode, FALSE>>)
          [] op_code \in {224, 228, 236} -> arm_CPX(s, addr_mode)
          [] op_code \in {227, 231, 239, 243, 247, 251, 255} -> arm_ISB(s, addr_mode)
          [] op_code \in {230, 238, 246, 254} -> arm_INC(s, addr_mode)
          [] op_code = 232 -> call("arm_register", <<s, "x", U8(s.cpu.reg.x + 1)>>)
          [] op_code \in {225, 229, 233, 237, 241, 245, 249, 253, 235} -> arm_SBC(s, addr_mode)
          [] op_code \in {4, 12, 20, 26, 28, 52, 58, 60, 68, 84, 90, 92, 100, 116, 122, 124, 128, 212, 218, 220, 234, 244, 250, 252} -> arm_NOP(s, addr_mode)
          [] op_code = 240 -> call("arm_branch", <<s, get_status_flag(s, Zero)>>)
          [] op_code = 248 -> call("arm_flag", <<s, DecimalMode, TRUE>>)
          [] OTHER -> Fail(s, "unexpected opcode")

\* Cpu::execute_instruction
execute_instruction(s) ==
    LET op == call("get_op", <<s, 0>>)
    IN  IF op.v \notin DOMAIN instructions
        THEN Fail(op.s, "unwrap on None")
        ELSE dispatch(op.s, op.v, instructions[op.v][2])

\* Cpu::execute: [s, nmi], nmi the value it returns.
execute(s) ==
    IF s.cpu.nmi_triggered
    THEN [s |-> call("perform_interrupt", <<[s EXCEPT !.cpu.nmi_triggered = FALSE], 65530, 65531, TRUE>>),
          nmi |-> TRUE]
    ELSE [s |-> call("execute_instruction", <<s>>), nmi |-> FALSE]

---------------------------------------------------------------------------
(* The log line of the nestest run: Cpu::get_state_string.                 *)

\* The body of Cpu::decode_instruction that follows the switching off of
\* the side effects of PPU reads: [s, reads], s the machine it leaves and
\* reads the addresses it has read by Machine::read_mem for the annotation
\* of the operand.  The string is output only.
decode_reads(s0) ==
    LET op == call("get_op", <<s0, 0>>)
        reg == s0.cpu.reg
        mode == instructions[op.v][2]
        mnemonic == instructions[op.v][1]
        \* the operand bytes of code_str
        b1 == IF mode \notin {"Implied", "Accumulator"} THEN call("get_op", <<op.s, 1>>).s ELSE op.s
        b2 == IF mode \in {"Absolute", "Indirect", "AbsoluteX", "AbsoluteY"}
              THEN call("get_op", <<b1, 2>>).s ELSE b1
        done(m, reads) == [s |-> [m EXCEPT !.ppu.mem_read_mut_enabled = TRUE],
                           reads |-> reads]
        \* one read of the annotation, at the address operand + index
        indexed(operand, address) ==
            done(call("Machine_read_mem", <<operand.s, address>>).s, <<address>>)
        \* the pointer read at lo and hi, then the read at pointer + index
        pointer(operand, lo, hi, index, follow) ==
            LET low == call("Machine_read_mem", <<operand.s, lo>>)
                high == call("Machine_read_mem", <<low.s, hi>>)
                final == U16(high.v * 256 + low.v + index)
            IN  IF follow
                THEN done(call("Machine_read_mem", <<high.s, final>>).s, <<lo, hi, final>>)
                ELSE done(high.s, <<lo, hi>>)
    IN  IF op.v \notin OpCodes THEN [s |-> op.s, reads |-> <<>>]
        ELSE CASE mode \in {"Accumulator", "Implied"} -> done(b2, <<>>)
               [] mode \in {"Immediate", "Relative"} -> done(call("get_op", <<b2, 1>>).s, <<>>)
               [] mode = "Absolute" ->
                      LET operand == call("get_op_u16", <<b2>>)
                      IN  IF mnemonic \notin {"JMP", "JSR"}
                          THEN indexed(operand, operand.v)
                          ELSE done(operand.s, <<>>)
               [] mode = "ZeroPage" ->
                      LET operand == call("get_op", <<b2, 1>>)
                          value == call("Machine_read_mem", <<operand.s, operand.v>>)
                      IN  done(call("get_op", <<value.s, 1>>).s, <<operand.v>>)
               [] mode \in {"ZeroPageX", "ZeroPageY"} ->
                      LET operand == call("get_op", <<b2, 1>>)
                          index == IF mode = "ZeroPageX" THEN reg.x ELSE reg.y
                          address == U8(operand.v + index)
                          value == call("Machine_read_mem", <<operand.s, address>>)
                      IN  done(call("get_op", <<value.s, 1>>).s, <<address>>)
               [] mode \in {"AbsoluteX", "AbsoluteY"} ->
                      LET operand == call("get_op_u16", <<b2>>)
                          index == IF mode = "AbsoluteX" THEN reg.x ELSE reg.y
                      IN  indexed(operand, U16(operand.v + index))
               [] mode = "Indirect" ->
                      LET operand == call("get_op_u16", <<b2>>)
                      IN  pointer(operand, operand.v, U16(operand.v + 1), 0, FALSE)
               [] mode = "IndirectX" ->
                      LET operand == call("get_op", <<b2, 1>>)
                      IN  pointer(operand, (operand.v + reg.x) % 256,
                                  (operand.v + reg.x + 1) % 256, 0, TRUE)
               [] mode = "IndirectY" ->
                      LET operand == call("get_op", <<b2, 1>>)
                      IN  pointer(operand, operand.v, (operand.v + 1) % 256, reg.y, TRUE)

\* decode_instruction without the switching off of the side effects.
decode_instruction_mutating(s) == call("decode_reads", <<s>>)

\* Cpu::decode_instruction, which Cpu::get_state_string calls after it has
\* formatted the registers.
decode_instruction(s) == call("decode_reads", <<[s EXCEPT !.ppu.mem_read_mut_enabled = FALSE]>>)

---------------------------------------------------------------------------
(* apu.rs.  An operator takes the unit's record and returns it.  The audio *)
(* level and the sample queue are output and are left out.                 *)

\* Envelope::new
NewEnvelope ==
    [volume |-> 0, constant_volume_flag |-> FALSE, loop_flag |-> FALSE,
     start_flag |-> FALSE, decay_level |-> 0, divider |-> 0]

\* An envelope that goes from 0 to 15 whether it loops or not.
Envelope_step_clock_always_loops(e) ==
    IF e.start_flag
    THEN [e EXCEPT !.start_flag = FALSE, !.decay_level = 15, !.divider = e.volume]
    ELSE IF e.divider > 0 THEN [e EXCEPT !.divider = e.divider - 1]
    ELSE IF e.decay_level > 0
         THEN [e EXCEPT !.divider = e.volume, !.decay_level = e.decay_level - 1]
    ELSE [e EXCEPT !.divider = e.volume, !.decay_level = 15]

\* Envelope::step_clock
Envelope_step_clock(e) ==
    IF e.start_flag
    THEN [e EXCEPT !.start_flag = FALSE, !.decay_level = 15, !.divider = e.volume]
    ELSE IF e.divider > 0 THEN [e EXCEPT !.divider = e.divider - 1]
    ELSE IF e.decay_level > 0
         THEN [e EXCEPT !.divider = e.volume, !.decay_level = e.decay_level - 1]
    ELSE IF e.loop_flag THEN [e EXCEPT !.divider = e.volume, !.decay_level = 15]
    ELSE [e EXCEPT !.divider = e.volume]

\* Envelope::get_output_level
Envelope_get_output_level(e) == IF e.constant_volume_flag THEN e.volume ELSE e.decay_level

\* LengthCounter::LENGTH_TABLE
LENGTH_TABLE ==
    <<10, 254, 20, 2, 40, 4, 80, 6, 160, 8, 60, 10, 14, 12, 26, 14,
      12, 16, 24, 18, 48, 20, 96, 22, 192, 24, 72, 26, 16, 28, 32, 30>>

\* LengthCounter::new
NewLengthCounter == [counter |-> 0, enabled |-> FALSE, halt |-> FALSE]

\* LengthCounter::step_clock
LengthCounter_step_clock(l) ==
    IF l.counter > 0 /\ ~l.halt THEN [l EXCEPT !.counter = l.counter - 1] ELSE l

\* LengthCounter::set_enabled
LengthCounter_set_enabled(l, enabled) ==
    [l EXCEPT !.enabled = enabled, !.counter = IF enabled THEN l.counter ELSE 0]

\* LengthCounter::load
LengthCounter_load(l, value) ==
    IF l.enabled THEN [l EXCEPT !.counter = LENGTH_TABLE[value + 1]] ELSE l

\* Sweep::new
NewSweep(extra_minus_one) ==
    [enabled |-> FALSE, timer_max |-> 0, timer |-> 0, negate |-> FALSE,
     shift_count |-> 0, reload_flag |-> FALSE, muted |-> FALSE,
     extra_minus_one |-> extra_minus_one]

\* A sweep that mutes on the period alone and not on its target.
Sweep_step_clock_any_target(w, period) ==
    LET shifted == I16(period) \div Pow2(w.shift_count)
        change_amount == IF ~w.negate THEN shifted
                         ELSE IF w.extra_minus_one THEN (-shifted) - 1
                         ELSE -shifted
        target_period == IF w.shift_count = 0 THEN period
                         ELSE U16(I16(period) + change_amount)
        muted == period < 8
        reload == w.timer = 0 \/ w.reload_flag
    IN  [sweep |-> [w EXCEPT !.muted = muted,
                             !.timer = IF reload THEN w.timer_max ELSE w.timer - 1,
                             !.reload_flag = IF reload THEN FALSE ELSE w.reload_flag],
         period |-> IF w.timer = 0 /\ w.enabled /\ ~muted THEN target_period ELSE period]

\* Sweep::step_clock: [sweep, period].
Sweep_step_clock(w, period) ==
    LET shifted == I16(period) \div Pow2(w.shift_count)
        change_amount == IF ~w.negate THEN shifted
                         ELSE IF w.extra_minus_one THEN (-shifted) - 1
                         ELSE -shifted
        target_period == IF w.shift_count = 0 THEN period
                         ELSE U16(I16(period) + change_amount)
        muted == target_period > 2047 \/ period < 8
        reload == w.timer = 0 \/ w.reload_flag
    IN  [sweep |-> [w EXCEPT !.muted = muted,
                             !.timer = IF reload THEN w.timer_max ELSE w.timer - 1,
                             !.reload_flag = IF reload THEN FALSE ELSE w.reload_flag],
         period |-> IF w.timer = 0 /\ w.enabled /\ ~muted THEN target_period ELSE period]

\* Sweep::setup
Sweep_setup(w, value) ==
    [w EXCEPT !.enabled = Bit(value, 7), !.timer_max = (value \div 16) % 8,
              !.negate = Bit(value, 3), !.shift_count = value % 8,
              !.reload_flag = TRUE]

\* PulseChannel::WAVEFORMS
WAVEFORMS ==
    << <<0, 1, 0, 0, 0, 0, 0, 0>>,
       <<0, 1, 1, 0, 0, 0, 0, 0>>,
       <<0, 1, 1, 1, 1, 0, 0, 0>>,
       <<1, 0, 0, 1, 1, 1, 1, 1>> >>

\* PulseChannel::new
NewPulseChannel(extra_minus_one) ==
    [duty_cycle |-> 0, timer_max |-> 0, timer |-> 0, sequence_index |-> 0,
     envelope |-> NewEnvelope, length_counter |-> NewLengthCounter,
     sweep |-> NewSweep(extra_minus_one), output_level |-> 0]

\* PulseChannel::update_level
PulseChannel_update_level(c) ==
    LET index == IF c.sequence_index + 1 > 7 THEN 0 ELSE c.sequence_index + 1
        level == IF c.timer_max < 8 THEN 0
                 ELSE U8(WAVEFORMS[c.duty_cycle + 1][index + 1]
                         * Envelope_get_output_level(c.envelope))
        c1 == IF c.timer = 0
              THEN [c EXCEPT !.timer = c.timer_max, !.sequence_index = index,
                             !.output_level = level]
              ELSE [c EXCEPT !.timer = c.timer - 1]
    IN  IF c1.length_counter.counter = 0 \/ c1.sweep.muted
        THEN [c1 EXCEPT !.output_level = 0]
        ELSE c1

\* PulseChannel::set_control1
PulseChannel_set_control1(c, value) ==
    [c EXCEPT !.duty_cycle = value \div 64,
              !.envelope.loop_flag = Bit(value, 5),
              !.length_counter.halt = Bit(value, 5),
              !.envelope.constant_volume_flag = Bit(value, 4),
              !.envelope.volume = value % 16]

\* PulseChannel::set_timer_max_low
PulseChannel_set_timer_max_low(c, value) ==
    [c EXCEPT !.timer_max = (c.timer_max \div 256) * 256 + value]

\* PulseChannel::set_timer_max_high
PulseChannel_set_timer_max_high(c, value) ==
    [c EXCEPT !.timer_max = (c.timer_max % 256) + (value % 8) * 256,
              !.length_counter = LengthCounter_load(c.length_counter, value \div 8),
              !.envelope.start_flag = TRUE]

\* PulseChannel::step_sweep_clock
PulseChannel_step_sweep_clock(c) ==
    LET r == Sweep_step_clock(c.sweep, c.timer_max)
    IN  [c EXCEPT !.sweep = r.sweep, !.timer_max = r.period]

\* LinearCounter::new
NewLinearCounter ==
    [counter |-> 0, reload_value |-> 0, reload_flag |-> FALSE, control_flag |-> FALSE]

\* LinearCounter::step_clock
LinearCounter_step_clock(l) ==
    [l EXCEPT !.counter = IF l.reload_flag THEN l.reload_value
                          ELSE IF l.counter > 0 THEN l.counter - 1
                          ELSE l.counter,
              !.reload_flag = IF ~l.control_flag THEN FALSE ELSE l.reload_flag]

\* LinearCounter::setup
LinearCounter_setup(l, value) ==
    [l EXCEPT !.control_flag = Bit(value, 7), !.reload_value = value % 128]

\* TriangleChannel::WAVEFORM
WAVEFORM ==
    <<15, 14, 13, 12, 11, 10, 9, 8, 7, 6, 5, 4, 3, 2, 1, 0,
      0, 1, 2, 3, 4, 5, 6, 7, 8, 9, 10, 11, 12, 13, 14, 15>>

\* TriangleChannel::new
NewTriangleChannel ==
    [timer_max |-> 0, timer |-> 0, sequence_index |-> 0,
     length_counter |-> NewLengthCounter, linear_counter |-> NewLinearCounter,
     output_level |-> 0]

\* TriangleChannel::update_level
TriangleChannel_update_level(c) ==
    LET index == IF c.sequence_index + 1 > 31 THEN 0 ELSE c.sequence_index + 1
        c1 == IF c.timer = 0
              THEN [c EXCEPT !.timer = c.timer_max, !.sequence_index = index,
                             !.output_level = WAVEFORM[index + 1]]
              ELSE [c EXCEPT !.timer = c.timer - 1]
    IN  IF c1.length_counter.counter = 0 \/ c1.linear_counter.counter = 0
        THEN [c1 EXCEPT !.output_level = 0]
        ELSE c1

\* TriangleChannel::set_halt_and_linear_counter_load
TriangleChannel_set_halt_and_linear_counter_load(c, value) ==
    [c EXCEPT !.length_counter.halt = Bit(value, 7),
              !.linear_counter = LinearCounter_setup(c.linear_counter, value)]

\* TriangleChannel::set_timer_max_low
TriangleChannel_set_timer_max_low(c, value) ==
    [c EXCEPT !.timer_max = (c.timer_max \div 256) * 256 + value]

\* TriangleChannel::set_length_counter_load_and_timer_max_high
TriangleChannel_set_length_counter_load_and_timer_max_high(c, value) ==
    [c EXCEPT !.timer_max = (c.timer_max % 256) + (value % 8) * 256,
              !.length_counter = LengthCounter_load(c.length_counter, value \div 8),
              !.linear_counter.reload_flag = TRUE]

\* Apu::new
NewApu ==
    [frame_counter_sequence |-> "FourStep", interrupt_inhibit_flag |-> FALSE,
     cycle_count |-> 0, pulse1 |-> NewPulseChannel(TRUE),
     pulse2 |-> NewPulseChannel(FALSE), triangle |-> NewTriangleChannel]

\* Apu::step_quarter_frame_clock
step_quarter_frame_clock(a) ==
    [a EXCEPT !.pulse1.envelope = Envelope_step_clock(a.pulse1.envelope),
              !.pulse2.envelope = Envelope_step_clock(a.pulse2.envelope),
              !.triangle.linear_counter =
                  LinearCounter_step_clock(a.triangle.linear_counter)]

\* Apu::step_half_frame_clock
step_half_frame_clock(a) ==
    LET pulse(c) ==
            PulseChannel_step_sweep_clock(
                [c EXCEPT !.length_counter = LengthCounter_step_clock(c.length_counter)])
    IN  [a EXCEPT !.pulse1 = pulse(a.pulse1),
                  !.pulse2 = pulse(a.pulse2),
                  !.triangle.length_counter =
                      LengthCounter_step_clock(a.triangle.length_counter)]

\* The frame clocks Apu::step_cycle issues in the cycle that brings cycle_count
\* to count: "half" for step_quarter_frame_clock followed by
\* step_half_frame_clock, "quarter" for step_quarter_frame_clock alone.
frame_clocks(four, count) ==
    IF count = 7456 * 2 + 1
       \/ count = (IF four THEN 14914 * 2 + 1 ELSE 18640 * 2 + 1) THEN "half"
    ELSE IF count = 3728 * 2 + 1 \/ count = 11185 * 2 + 1 THEN "quarter"
    ELSE "none"

\* One iteration of the loop of Apu::step_cycle, on [apu, irq] with irq its
\* irq_triggered.
apu_cycle(r) ==
    LET frame(a1) ==
            LET four == a1.frame_counter_sequence = "FourStep"
                cycle_wrap_around == IF four THEN 14915 * 2 ELSE 18641 * 2
                count == IF a1.cycle_count + 1 >= cycle_wrap_around THEN 0
                         ELSE a1.cycle_count + 1
                a2 == [a1 EXCEPT !.cycle_count = count]
                half == frame_clocks(four, count) = "half"
                quarter == frame_clocks(four, count) = "quarter"
                result(a3) ==
                    [apu |-> a3,
                     irq |-> r.irq \/ (four /\ (count = 0 \/ count >= 14914 * 2)
                                       /\ ~a3.interrupt_inhibit_flag)]
            IN  result(IF half THEN step_half_frame_clock(call("step_quarter_frame_clock", <<a2>>))
                       ELSE IF quarter THEN call("step_quarter_frame_clock", <<a2>>)
                       ELSE a2)
        pulses(a0) ==
            frame(IF a0.cycle_count % 2 = 0
                  THEN [a0 EXCEPT !.pulse1 = call("PulseChannel_update_level", <<a0.pulse1>>),
                                  !.pulse2 = call("PulseChannel_update_level", <<a0.pulse2>>)]
                  ELSE a0)
    IN  pulses([r.apu EXCEPT !.triangle = TriangleChannel_update_level(r.apu.triangle)])

\* n iterations of the loop of Apu::step_cycle.  cycle_count is unsigned: the
\* test of it only has r evaluated before the iterations that follow.
RECURSIVE apu_cycles(_, _)
apu_cycles(r, n) ==
    IF n = 0 \/ r.apu.cycle_count < 0 THEN r
    ELSE IF n = 1 THEN apu_cycle(r)
    ELSE call("apu_cycles", <<call("apu_cycles", <<r, n \div 2>>), n - (n \div 2)>>)

\* Apu::step_cycle: [apu, irq], irq the value it returns.
Apu_step_cycle(a, count) == call("apu_cycles", <<[apu |-> a, irq |-> FALSE], count>>)

\* Apu::write_mem
Apu_write_mem(a, address, value) ==
    CASE address = 16384 -> [a EXCEPT !.pulse1 = PulseChannel_set_control1(a.pulse1, value)]
      [] address = 16385 -> [a EXCEPT !.pulse1.sweep = Sweep_setup(a.pulse1.sweep, value)]
      [] address = 16386 ->
             [a EXCEPT !.pulse1 = PulseChannel_set_timer_max_low(a.pulse1, value)]
      [] address = 16387 ->
             [a EXCEPT !.pulse1 = PulseChannel_set_timer_max_high(a.pulse1, value)]
      [] address = 16388 -> [a EXCEPT !.pulse2 = PulseChannel_set_control1(a.pulse2, value)]
      [] address = 16389 -> [a EXCEPT !.pulse2.sweep = Sweep_setup(a.pulse2.sweep, value)]
      [] address = 16390 ->
             [a EXCEPT !.pulse2 = PulseChannel_set_timer_max_low(a.pulse2, value)]
      [] address = 16391 ->
             [a EXCEPT !.pulse2 = PulseChannel_set_timer_max_high(a.pulse2, value)]
      [] address = 16392 ->
             [a EXCEPT !.triangle =
                           TriangleChannel_set_halt_and_linear_counter_load(a.triangle, value)]
      [] address = 16394 ->
             [a EXCEPT !.triangle = TriangleChannel_set_timer_max_low(a.triangle, value)]
      [] address = 16395 ->
             [a EXCEPT !.triangle =
                 TriangleChannel_set_length_counter_load_and_timer_max_high(a.triangle, value)]
      [] address = 16405 ->
             [a EXCEPT !.pulse1.length_counter =
                           LengthCounter_set_enabled(a.pulse1.length_counter, Bit(value, 0)),
                       !.pulse2.length_counter =
                           LengthCounter_set_enabled(a.pulse2.length_counter, Bit(value, 1)),
                       !.triangle.length_counter =
                           LengthCounter_set_enabled(a.triangle.length_counter, Bit(value, 2))]
      [] address = 16407 ->
             [a EXCEPT !.frame_counter_sequence =
                           IF Bit(value, 7) THEN "FiveStep" ELSE "FourStep",
                       !.interrupt_inhibit_flag = Bit(value, 6)]
      [] OTHER -> a
---------------------------------------------------------------------------
(* The machine as a state machine.  An operation takes the machine apart   *)
(* from the variables, runs the code's function on it and stores what it   *)
(* leaves; hist keeps the operation's kind, the machine it started from    *)
(* and what the bus saw while it ran.                                      *)

call(f, a) ==
    CASE f = "cart_read_mem_cpu" -> cart_read_mem_cpu(a[1], a[2])
      [] f = "cart_read_mem_ppu" -> cart_read_mem_ppu(a[1], a[2], a[3])
      [] f = "cart_write_mem_ppu" -> cart_write_mem_ppu(a[1], a[2], a[3], a[4])
      [] f = "read_mem_ppu" -> read_mem_ppu(a[1], a[2])
      [] f = "sprite_pixel_from" -> sprite_pixel_from(a[1], a[2])
      [] f = "prepare_sprites_from" -> prepare_sprites_from(a[1], a[2], a[3])
      [] f = "ppu_dots" -> ppu_dots(a[1], a[2])
      [] f = "Ppu_step_cycle" -> Ppu_step_cycle(a[1], a[2])
      [] f = "Machine_read_mem" -> Machine_read_mem(a[1], a[2])
      [] f = "Machine_write_mem" -> Machine_write_mem(a[1], a[2], a[3])
      [] f = "get_op" -> get_op(a[1], a[2])
      [] f = "get_op_u16" -> get_op_u16(a[1])
      [] f = "push" -> push(a[1], a[2])
      [] f = "pop" -> pop(a[1])
      [] f = "Cpu_step_cycle" -> Cpu_step_cycle(a[1], a[2])
      [] f = "step_pc_and_cycle" -> step_pc_and_cycle(a[1], a[2])
      [] f = "perform_interrupt" -> perform_interrupt(a[1], a[2], a[3], a[4])
      [] f = "get_address" -> get_address(a[1], a[2])
      [] f = "get_byte" -> get_byte(a[1], a[2])
      [] f = "set_byte" -> set_byte(a[1], a[2], a[3])
      [] f = "arm_branch" -> arm_branch(a[1], a[2])
      [] f = "arm_flag" -> arm_flag(a[1], a[2], a[3])
      [] f = "arm_register" -> arm_register(a[1], a[2], a[3])
      [] f = "execute_instruction" -> execute_instruction(a[1])
      [] f = "execute" -> execute(a[1])
      [] f = "PulseChannel_update_level" -> PulseChannel_update_level(a[1])
      [] f = "step_quarter_frame_clock" -> step_quarter_frame_clock(a[1])
      [] f = "apu_cycles" -> apu_cycles(a[1], a[2])
      [] f = "Apu_step_cycle" -> Apu_step_cycle(a[1], a[2])
      [] f = "Apu_write_mem" -> Apu_write_mem(a[1], a[2], a[3])
      [] f = "reset" -> reset(a[1])
      [] f = "perform_dma" -> perform_dma(a[1], a[2])
      [] f = "Ppu_read_mem" -> Ppu_read_mem(a[1], a[2])
      [] f = "Ppu_write_mem" -> Ppu_write_mem(a[1], a[2], a[3])
      [] f = "Machine_step_cycle" -> Machine_step_cycle(a[1], a[2])
      [] f = "write_mem_ppu" -> write_mem_ppu(a[1], a[2], a[3])
      [] f = "decode_reads" -> decode_reads(a[1])

\* The most instructions a behaviour executes.
MaxInstr == 1

\* The machine the variables hold, about to run with the bytes code at PC.
Mach(code) ==
    [cpu |-> cpu, ram |-> ram, nmi_line |-> nmi_line, ppu |-> ppu,
     controller |-> controller, cart |-> cart, fault |-> "none",
     writes |-> <<>>, edge |-> FALSE, cycles |-> 0, code |-> code]

\* Store the machine s that the operation kind left, started from pre.
Commit(s, kind, pre) ==
    /\ fault' = s.fault
    /\ IF s.fault = "none"
       THEN /\ cpu' = s.cpu
            /\ ram' = s.ram
            /\ nmi_line' = s.nmi_line
            /\ ppu' = s.ppu
            /\ controller' = s.controller
            /\ cart' = s.cart
       ELSE UNCHANGED <<cpu, ram, nmi_line, ppu, controller, cart>>
    /\ hist' = [kind |-> kind, pre |-> pre, writes |-> s.writes, edge |-> s.edge,
                cycles |-> s.cycles, irq |-> irq_line]

\* The PPU after the program has cleared $2001 at power-on, set bit 7 of
\* $2000 and forwarded n cycles to the bus in its calls of step_cycle: 3 * n
\* iterations of the loop of Ppu::step_cycle.
PpuAfter(n) ==
    LET s0 == [cpu |-> NewCpu, ram |-> Empty, nmi_line |-> TRUE, ppu |-> NewPpu,
               controller |-> NewController, cart |-> NromCart("Horizontal", 1),
               fault |-> "none", writes |-> <<>>, edge |-> FALSE, cycles |-> 0,
               code |-> <<0, 0, 0>>]
        s1 == call("Machine_write_mem", <<call("Machine_write_mem", <<s0, 8193, 0>>), 8192, 128>>)
    IN  call("ppu_dots", <<s1, 3 * n>>).ppu

\* The CPU cycles from power-on that end before the vertical blank, which
\* starts with the line VBLANK_LINE.
CyclesToVblank == (VBLANK_LINE * DOTS_PER_LINE) \div 3

\* PpuAfter(0): the two writes have cleared the mask and enabled the NMI.
PpuOn ==
    [NewPpu EXCEPT !.gen_nmi_at_vblank = TRUE,
                   !.background_enabled = FALSE, !.sprites_enabled = FALSE,
                   !.background_leftmost_enabled = FALSE,
                   !.sprites_leftmost_enabled = FALSE]

\* PpuAfter(CyclesToVblank): with rendering disabled the dots before the
\* vertical blank only move the position, to the last but one dot of the line
\* before VBLANK_LINE.
PpuBeforeVblank ==
    [PpuOn EXCEPT !.scan_line = VBLANK_LINE - 1, !.cycle_count = DOTS_PER_LINE - 2]

\* PpuAfter(CyclesToVblank + 2): six dots later the line VBLANK_LINE has begun
\* and set the vblank flag.
PpuInVblank ==
    [PpuOn EXCEPT !.scan_line = VBLANK_LINE, !.cycle_count = 4, !.vblank = TRUE]

InitPpus == {NewPpu, PpuBeforeVblank, PpuInVblank}

\* Register files the program reaches with loads, transfers and PLP.
InitRegs ==
    {[pc |-> 33008, sp |-> 253, a |-> 0, x |-> 32, y |-> 32, status |-> 36],
     [pc |-> 33008, sp |-> 1, a |-> 127, x |-> 32, y |-> 32, status |-> 227]}

\* RAM as the program's stores leave it: untouched, or with pointers in the
\* zero page and bytes on the stack.
InitRams ==
    {Empty,
     (16 :> 240) @@ (17 :> 2) @@ (48 :> 2) @@ (49 :> 32) @@ (752 :> 255) @@ (784 :> 129)
       @@ (2 :> 48) @@ (3 :> 207) @@ (4 :> 18) @@ (510 :> 255) @@ (511 :> 48)}

InitCarts == {NromCart("Horizontal", 1), Mmc1Cart("Vertical", 2, 0)}

\* The states the machine starts from: PPU, registers, RAM and cartridge of
\* one run each.
InitConfigs ==
    {[ppu |-> PpuBeforeVblank, reg |-> r, ram |-> Empty,
      cart |-> NromCart("Horizontal", 1)] : r \in InitRegs}
    \cup {[ppu |-> PpuInVblank, reg |-> r, ram |-> m, cart |-> Mmc1Cart("Vertical", 2, 0)] :
             r \in {x \in InitRegs : x.sp = 253}, m \in InitRams \ {Empty}}
    \cup {[ppu |-> NewPpu, reg |-> r, ram |-> m, cart |-> Mmc1Cart("Vertical", 2, 0)] :
             r \in {x \in InitRegs : x.sp = 1}, m \in InitRams \ {Empty}}

Init ==
    /\ \E c \in InitConfigs :
           /\ c.ppu \in InitPpus /\ c.cart \in InitCarts
           /\ cpu = [reg |-> c.reg, nmi_triggered |-> FALSE]
           /\ ram = c.ram
           /\ ppu = c.ppu
           /\ cart = c.cart
    /\ nmi_line = ~(ppu.vblank /\ ppu.gen_nmi_at_vblank)
    /\ controller = NewController
    /\ cart \in InitCarts
    /\ apu = NewApu
    /\ irq_line = FALSE
    /\ fault = "none"
    /\ hist = [kind |-> "init", pre |-> Mach(<<0, 0, 0>>), writes |-> <<>>,
               edge |-> FALSE, cycles |-> 0, irq |-> FALSE]
    /\ fuel = MaxInstr

\* Operand bytes the cartridge may hold after an opcode of the mode.
Operands(addr_mode) ==
    CASE addr_mode \in {"Implied", "Accumulator"} -> {<<0, 0>>}
      [] addr_mode = "Immediate" -> {<<1, 0>>, <<128, 0>>}
      [] addr_mode = "Relative" -> {<<4, 0>>, <<32, 0>>, <<240, 0>>}
      [] addr_mode \in {"ZeroPage", "ZeroPageX", "ZeroPageY", "IndirectX", "IndirectY"} ->
             {<<16, 0>>, <<228, 0>>}
      [] addr_mode = "Indirect" -> {<<255, 1>>, <<16, 0>>}
      [] OTHER -> {<<240, 2>>, <<2, 32>>, <<0, 32>>, <<7, 32>>, <<20, 64>>, <<22, 64>>,
                   <<0, 128>>, <<0, 224>>}

\* Bytes that are no opcode of the table.
UnknownOps == {0, 2, 88}

\* The bytes at PC, PC + 1 and PC + 2.
Codes ==
    {<<op, b[1], b[2]>> : op \in UnknownOps, b \in {<<0, 0>>}}
    \cup UNION {{<<op, b[1], b[2]>> : b \in Operands(instructions[op][2])} : op \in OpCodes}

\* Cpu::execute, called by the loops of main; code is what the cartridge holds
\* at PC, which an NMI entry does not fetch.
Execute(code) ==
    /\ fault = "none"
    /\ cpu.nmi_triggered \/ fuel > 0
    /\ LET pre == Mach(code)
           retire(r) ==
               /\ Commit(r.s, IF r.nmi THEN "nmi" ELSE "instr", pre)
               /\ fuel' = IF r.nmi THEN fuel ELSE fuel - 1
       IN  retire(call("execute", <<pre>>))
    /\ UNCHANGED <<apu, irq_line>>

\* SystemEvent::Reset in main: Cpu::reset.
Reset ==
    /\ fault = "none"
    /\ hist.kind # "reset"
    /\ LET pre == Mach(<<0, 0, 0>>)
       IN  Commit(call("reset", <<pre>>), "reset", pre)
    /\ UNCHANGED <<apu, irq_line, fuel>>

\* The bytes at PC that matter to execute: none when it enters the NMI.
Fetched == IF cpu.nmi_triggered THEN {<<0, 0, 0>>} ELSE Codes

Next ==
    \/ \E code \in Fetched : Execute(code)
    \/ Reset

Spec == Init /\ [][Next]_vars

TypeOK == fault \in STRING

---------------------------------------------------------------------------
(* What the last operation was: hist.pre is the machine it started from.   *)

PreReg == hist.pre.cpu.reg

\* The operation was an instruction fetched from the cartridge that ran to
\* its end.
Retired ==
    /\ hist.kind = "instr"
    /\ fault = "none"
    /\ PreReg.pc >= 32768 /\ PreReg.pc <= 65533

OpCode == hist.pre.code[1]
Mnemonic == instructions[OpCode][1]
AddrMode == instructions[OpCode][2]

\* The byte the cartridge holds at address, as the bus reads it.
RomByte(address) == call("cart_read_mem_cpu", <<cart, address>>).v

\* Dots since the start of the pre-render line.
PpuPos(p) == (p.scan_line + 1) * DOTS_PER_LINE + p.cycle_count
DotsPerFrame == (LAST_LINE + 1) * DOTS_PER_LINE

---------------------------------------------------------------------------
\* C1: when the NMI line fell during a step_cycle call of the instruction
\* that just retired, the pending-NMI flag is set at the boundary, so the
\* next execute services the NMI.
C1_EdgeLatched ==
    (hist.kind = "instr" /\ fault = "none" /\ hist.edge) => cpu.nmi_triggered

\* C2: execute with the NMI pending pushes PC high, PC low and status at
\* $0100 + SP, leaves SP three lower, sets Interrupt-Disable, loads PC from
\* $FFFA/$FFFB, clears the pending flag and executes no instruction.
C2_NmiEntry ==
    (hist.kind = "nmi" /\ fault = "none") =>
        /\ hist.writes = << <<256 + PreReg.sp, PreReg.pc \div 256>>,
                            <<256 + U8(PreReg.sp - 1), PreReg.pc % 256>>,
                            <<256 + U8(PreReg.sp - 2), PreReg.status>> >>
        /\ cpu.reg.sp = U8(PreReg.sp - 3)
        /\ Bit(cpu.reg.status, InterruptDisable)
        /\ cpu.reg.pc = RomByte(65531) * 256 + RomByte(65530)
        /\ ~cpu.nmi_triggered
        /\ cpu.reg.a = PreReg.a /\ cpu.reg.x = PreReg.x /\ cpu.reg.y = PreReg.y

\* The entry sequence of C2 without the Interrupt-Disable flag.
NmiEntryButFlag ==
    (hist.kind = "nmi" /\ fault = "none") =>
        /\ Len(hist.writes) = 3
        /\ cpu.reg.sp = U8(PreReg.sp - 3)
        /\ cpu.reg.status = PreReg.status
        /\ cpu.reg.pc = RomByte(65531) * 256 + RomByte(65530)
        /\ ~cpu.nmi_triggered

\* C3: the execute call that services the NMI forwards 7 cycles to the bus:
\* the PPU is 21 dots further than before it.
C3_NmiEntryCycles ==
    (hist.kind = "nmi" /\ fault = "none") =>
        /\ hist.cycles = 7
        /\ PpuPos(ppu) = (PpuPos(hist.pre.ppu) + 21) % DotsPerFrame

\* C5: a soft reset loads PC from $FFFC/$FFFD, writes nothing, leaves RAM
\* as it was and SP three lower (mod 256).
C5_Reset ==
    (hist.kind = "reset" /\ fault = "none") =>
        /\ cpu.reg.pc = RomByte(65533) * 256 + RomByte(65532)
        /\ ram = hist.pre.ram
        /\ hist.writes = <<>>
        /\ cpu.reg.sp = U8(PreReg.sp - 3)

\* The parts of C5 other than SP.
ResetButSp ==
    (hist.kind = "reset" /\ fault = "none") =>
        /\ cpu.reg.pc = RomByte(65533) * 256 + RomByte(65532)
        /\ ram = hist.pre.ram
        /\ hist.writes = <<>>
        /\ cpu.reg.sp = PreReg.sp

\* The 151 opcodes of the 6502's documented instruction set.
OfficialOpcodes ==
    {0, 1, 5, 6, 8, 9, 10, 13, 14, 16, 17, 21, 22, 24, 25, 29,
     30, 32, 33, 36, 37, 38, 40, 41, 42, 44, 45, 46, 48, 49, 53, 54,
     56, 57, 61, 62, 64, 65, 69, 70, 72, 73, 74, 76, 77, 78, 80, 81,
     85, 86, 88, 89, 93, 94, 96, 97, 101, 102, 104, 105, 106, 108, 109, 110,
     112, 113, 117, 118, 120, 121, 125, 126, 129, 132, 133, 134, 136, 138, 140, 141,
     142, 144, 145, 148, 149, 150, 152, 153, 154, 157, 160, 161, 162, 164, 165, 166,
     168, 169, 170, 172, 173, 174, 176, 177, 180, 181, 182, 184, 185, 186, 188, 189,
     190, 192, 193, 196, 197, 198, 200, 201, 202, 204, 205, 206, 208, 209, 213, 214,
     216, 217, 221, 222, 224, 225, 228, 229, 230, 232, 233, 234, 236, 237, 238, 240,
     241, 245, 246, 248, 249, 253, 254}

\* The opcodes of SLO, RLA, SRE, RRA, SAX, LAX, DCP and ISB, and $EB.
ListedUnofficialOpcodes ==
    {3, 7, 15, 19, 23, 27, 31, 35, 39, 47, 51, 55, 59, 63, 67, 71,
     79, 83, 87, 91, 95, 99, 103, 111, 115, 119, 123, 127, 131, 135, 143, 151,
     163, 167, 175, 179, 183, 191, 195, 199, 207, 211, 215, 219, 223, 227, 231, 235,
     239, 243, 247, 251, 255}

\* The aborts of decoding: no entry in the table, no arm, no cycle count.
DecodeAborts ==
    {"unwrap on None", "unexpected opcode", "Unexpected addressing mode",
     "Unsupported addressing mode"}

\* C6: an instruction whose opcode is one of the 151 official or the listed
\* unofficial opcodes is decoded and retired without aborting.
C6_OpcodesRetire ==
    (hist.kind = "instr" /\ PreReg.pc >= 32768 /\ PreReg.pc <= 65533
     /\ OpCode \in OfficialOpcodes \cup ListedUnofficialOpcodes)
        => fault \notin DecodeAborts

\* C6 for the opcodes other than BRK and CLI.
OpcodesRetireButBrkCli ==
    (hist.kind = "instr" /\ PreReg.pc >= 32768 /\ PreReg.pc <= 65533
     /\ OpCode \in (OfficialOpcodes \cup ListedUnofficialOpcodes) \ {0, 88})
        => fault \notin DecodeAborts

\* C7: status bit 5 is 1 (and bit 4 is 0) in every state; PHP pushes status
\* with bits 4 and 5 set; an NMI entry pushes it with bit 4 clear and bit 5
\* set; PLP and RTI leave bits 4 and 5 of the register as they were.
C7_StatusBits ==
    /\ Bit(cpu.reg.status, 5) /\ ~Bit(cpu.reg.status, 4)
    /\ (Retired /\ Mnemonic = "PHP") =>
           /\ Len(hist.writes) = 1
           /\ And(hist.writes[1][2], 48) = 48
           /\ And(hist.writes[1][2], 207) = And(PreReg.status, 207)
    /\ (hist.kind = "nmi" /\ fault = "none") =>
           /\ Len(hist.writes) = 3
           /\ And(hist.writes[3][2], 48) = 32
    /\ (Retired /\ Mnemonic \in {"PLP", "RTI"}) =>
           And(cpu.reg.status, 48) = And(PreReg.status, 48)

\* PLP has pulled $FF, all of whose bits but 4 and 5 reached the register.
C7_Witness ==
    /\ Retired /\ Mnemonic = "PLP"
    /\ Get(hist.pre.ram, 0, 256 + U8(PreReg.sp + 1)) = 255
    /\ cpu.reg.status = 239

\* An NMI entry has pushed the status.
NmiPushed == hist.kind = "nmi" /\ fault = "none" /\ Len(hist.writes) = 3

StoreMnemonics == {"STA", "STX", "STY", "*SAX"}
RmwMnemonics ==
    {"ASL", "LSR", "ROL", "ROR", "INC", "DEC",
     "*SLO", "*RLA", "*SRE", "*RRA", "*DCP", "*ISB"}
IndexedModes == {"AbsoluteX", "AbsoluteY", "IndirectY"}

\* The instruction that just retired, run from the same machine with X and Y
\* zero: the indexed address is then the base address, and no page is crossed.
Unindexed == call("execute_instruction", <<[hist.pre EXCEPT !.cpu.reg.x = 0, !.cpu.reg.y = 0]>>)

\* The instruction's effective address crossed a page, both it and the base
\* address lying in RAM.
CrossedInRam ==
    LET with == call("get_address", <<hist.pre, AddrMode>>)
        base == call("get_address", <<[hist.pre EXCEPT !.cpu.reg.x = 0, !.cpu.reg.y = 0], AddrMode>>)
    IN  /\ with.oops = 1
        /\ with.addr < 8192 /\ base.addr < 8192

\* C8: a store or read-modify-write instruction in Absolute+X, Absolute+Y or
\* Indirect+Y mode takes the same cycles when the indexed address crosses a
\* page as when it does not.
C8_NoPageCrossPenalty ==
    (Retired /\ Mnemonic \in StoreMnemonics \cup RmwMnemonics
     /\ AddrMode \in IndexedModes /\ CrossedInRam /\ Unindexed.fault = "none")
        => hist.cycles = Unindexed.cycles

\* C8 for the stores and the official read-modify-write instructions.
NoPenaltyOfficial ==
    (Retired /\ Mnemonic \in {"STA", "ASL", "LSR", "ROL", "ROR", "INC", "DEC"}
     /\ AddrMode \in IndexedModes /\ CrossedInRam /\ Unindexed.fault = "none")
        => hist.cycles = Unindexed.cycles

\* C9: a read-modify-write instruction on memory writes its target twice:
\* the value it read, then the modified value.
C9_RmwTwoWrites ==
    (Retired /\ Mnemonic \in RmwMnemonics /\ AddrMode # "Accumulator") =>
        LET target == call("get_address", <<hist.pre, AddrMode>>).addr
            old == call("get_byte", <<hist.pre, AddrMode>>).v
        IN  /\ Len(hist.writes) = 2
            /\ hist.writes[1] = <<target, old>>
            /\ hist.writes[2][1] = target

\* What the code does where C9 says two writes: one, of the modified value.
RmwOneWrite ==
    (Retired /\ Mnemonic \in RmwMnemonics /\ AddrMode # "Accumulator") =>
        /\ Len(hist.writes) = 1
        /\ hist.writes[1][1] = call("get_address", <<hist.pre, AddrMode>>).addr

---------------------------------------------------------------------------
(* The arithmetic of ADC and SBC on its own: from the power-on machine     *)
(* with any accumulator and with the Carry and Decimal flags either way,   *)
(* one call of compute_adc or compute_sbc with any operand.                *)

Bytes == 0 .. 255

\* The status after power-on and any of SEC and SED.
AluStatuses == {36, 37, 44, 45}

InitAlu ==
    /\ cpu \in {[reg |-> [pc |-> 33008, sp |-> 253, a |-> a, x |-> 0, y |-> 0,
                          status |-> st],
                 nmi_triggered |-> FALSE] : a \in Bytes, st \in AluStatuses}
    /\ ram = Empty
    /\ ppu = NewPpu
    /\ nmi_line = TRUE
    /\ controller = NewController
    /\ cart = NromCart("Horizontal", 1)
    /\ apu = NewApu
    /\ irq_line = FALSE
    /\ fault = "none"
    /\ hist = [kind |-> "init", a |-> 0, m |-> 0, status |-> 0]
    /\ fuel = MaxInstr

\* The call of compute_adc (kind "adc") or compute_sbc (kind "sbc") that the
\* arms of ADC, SBC, *RRA and *ISB make, with the accumulator and the byte m.
Alu(kind, m) ==
    /\ fault = "none"
    /\ fuel > 0
    /\ LET pre == Mach(<<0, 0, 0>>)
           s == IF kind = "adc" THEN compute_adc(pre, cpu.reg.a, m)
                ELSE compute_sbc(pre, cpu.reg.a, m)
       IN  /\ cpu' = s.cpu
           /\ hist' = [kind |-> kind, a |-> cpu.reg.a, m |-> m,
                       status |-> cpu.reg.status]
    /\ fuel' = fuel - 1
    /\ UNCHANGED <<ram, nmi_line, ppu, controller, cart, apu, irq_line, fault>>

Adc(m) == Alu("adc", m)
Sbc(m) == Alu("sbc", m)

NextAlu ==
    \/ \E m \in Bytes : Adc(m)
    \/ \E m \in Bytes : Sbc(m)

SpecAlu == InitAlu /\ [][NextAlu]_vars

\* The flags of the result r of an addition of A and M.
AluFlagsOk(A, M, r, carry_out) ==
    /\ cpu.reg.a = r
    /\ Bit(cpu.reg.status, Carry) = carry_out
    /\ Bit(cpu.reg.status, Overflow) = (And(And(Xor(A, r), Xor(M, r)), 128) # 0)
    /\ Bit(cpu.reg.status, Zero) = (r = 0)
    /\ Bit(cpu.reg.status, Negative) = (r >= 128)
    /\ Bit(cpu.reg.status, DecimalMode) = Bit(hist.status, DecimalMode)
    /\ And(cpu.reg.status, 52) = And(hist.status, 52)

\* C10: ADC leaves (A + M + C) mod 256 with Carry = (A + M + C > 255); SBC
\* leaves (A - M - (1 - C)) mod 256 with Carry = no borrow; Overflow is
\* ((A ^ r) & (M' ^ r) & $80) # 0 with M' = M for ADC and the complement of M
\* for SBC; Zero and Negative are those of r; the Decimal flag changes none of
\* it: the result is binary whether Decimal is set or not.
C10_AdcSbc ==
    LET A == hist.a
        M == hist.m
        C == IF Bit(hist.status, Carry) THEN 1 ELSE 0
    IN  /\ hist.kind = "adc" =>
               AluFlagsOk(A, M, (A + M + C) % 256, A + M + C > 255)
        /\ hist.kind = "sbc" =>
               AluFlagsOk(A, Not8(M), (A - M - (1 - C)) % 256, A - M - (1 - C) >= 0)

\* ADC of $7F and $01 with Carry clear has left $80 with Overflow and
\* Negative set and Carry clear.
C10_Witness ==
    /\ hist.kind = "adc" /\ hist.a = 127 /\ hist.m = 1 /\ ~Bit(hist.status, Carry)
    /\ Bit(hist.status, DecimalMode)
    /\ cpu.reg.a = 128
    /\ Bit(cpu.reg.status, Overflow) /\ Bit(cpu.reg.status, Negative)
    /\ ~Bit(cpu.reg.status, Carry)

---------------------------------------------------------------------------
(* The interrupt request of the APU frame counter.  Machine::step_cycle of *)
(* src/nes/mod.rs forwards the cycles to the PPU only; the bus that also   *)
(* forwards them to the APU and collects its request is taken from the     *)
(* description of the bus: advance by N cycles forwards N to the APU.      *)

\* The most instructions a behaviour with the APU executes.
MaxIrqInstr == 2

\* The bus forwarding the count cycles of an operation to the APU:
\* [apu, irq], irq the request collected.
Machine_forward_apu(a, count) == call("Apu_step_cycle", <<a, count>>)

\* The APU n cycles after power-on.
ApuAfter(n) == call("Apu_step_cycle", <<NewApu, n>>).apu

\* The APU n cycles after value was written to $4017 at power-on, n below
\* the length of the sequence: Apu_step_cycle(Apu_write_mem(NewApu, 16407,
\* value), n).apu.  The sequencers of the silent channels have advanced and
\* the first half-frame clock has muted the sweep units of the pulse
\* channels.
ApuAt(n, value) ==
    LET a == call("Apu_write_mem", <<NewApu, 16407, value>>)
        pulse(c) == [c EXCEPT !.sequence_index = ((n + 1) \div 2) % 8,
                              !.sweep.muted = n >= 7456 * 2 + 1]
    IN  [a EXCEPT !.cycle_count = n, !.pulse1 = pulse(a.pulse1),
                  !.pulse2 = pulse(a.pulse2), !.triangle.sequence_index = n % 32]

\* Cycles of the four-step sequence before its interrupt request.
CyclesToIrq == 14914 * 2 - 4

\* The APU shortly before the request of the frame counter.
ApuBeforeIrq == ApuAt(CyclesToIrq, 0)

InitApus ==
    {NewApu, ApuBeforeIrq, call("Apu_write_mem", <<ApuBeforeIrq, 16407, 64>>),
     call("Apu_write_mem", <<ApuBeforeIrq, 16407, 128>>)}

InitIrq ==
    /\ cpu \in {[reg |-> r, nmi_triggered |-> FALSE] : r \in InitRegs}
    /\ ram \in InitRams
    /\ ppu = PpuOn
    /\ nmi_line = TRUE
    /\ controller = NewController
    /\ cart = NromCart("Horizontal", 1)
    /\ apu \in InitApus
    /\ irq_line = FALSE
    /\ fault = "none"
    /\ hist = [kind |-> "init", pre |-> Mach(<<0, 0, 0>>), writes |-> <<>>,
               edge |-> FALSE, cycles |-> 0, irq |-> FALSE]
    /\ fuel = MaxIrqInstr

\* NOP, SEI, CLC, LDA #1, PHP, PLP, INC $10, STA $4017, JMP $C000, BNE +4.
IrqCodes ==
    {<<234, 0, 0>>, <<120, 0, 0>>, <<24, 0, 0>>, <<169, 1, 0>>, <<8, 0, 0>>,
     <<40, 0, 0>>, <<230, 16, 0>>, <<141, 23, 64>>, <<76, 0, 192>>, <<208, 4, 0>>}

\* Cpu::execute on the bus that forwards its cycles to the APU as well.
ExecuteIrq(code) ==
    /\ fault = "none"
    /\ cpu.nmi_triggered \/ fuel > 0
    /\ LET pre == Mach(code)
           forward(r, f) ==
               /\ Commit(r.s, IF r.nmi THEN "nmi" ELSE "instr", pre)
               /\ fuel' = IF r.nmi THEN fuel ELSE fuel - 1
               /\ apu' = IF r.s.fault = "none" THEN f.apu ELSE apu
               /\ irq_line' = IF r.s.fault = "none" THEN f.irq ELSE irq_line
           retire(r) == forward(r, Machine_forward_apu(apu, r.s.cycles))
       IN  retire(call("execute", <<pre>>))

NextIrq == \E code \in IrqCodes : ExecuteIrq(code)

SpecIrq == InitIrq /\ [][NextIrq]_vars

\* C4: when the frame counter has asserted its interrupt request and no NMI
\* is pending, the next execute enters the interrupt through $FFFE/$FFFF if
\* Interrupt-Disable is 0, and executes the instruction at PC if it is 1.
C4_IrqTaken ==
    (hist.kind = "instr" /\ fault = "none" /\ hist.irq /\ ~hist.pre.cpu.nmi_triggered) =>
        IF ~Bit(PreReg.status, InterruptDisable)
        THEN /\ hist.writes = << <<256 + PreReg.sp, PreReg.pc \div 256>>,
                                 <<256 + U8(PreReg.sp - 1), PreReg.pc % 256>>,
                                 <<256 + U8(PreReg.sp - 2), PreReg.status>> >>
             /\ cpu.reg.sp = U8(PreReg.sp - 3)
             /\ cpu.reg.pc = RomByte(65535) * 256 + RomByte(65534)
        ELSE cpu = call("execute_instruction", <<hist.pre>>).cpu

\* What the code does where C4 says the interrupt is entered: whether the
\* request is asserted or not, it executes the instruction at PC.
IrqIgnored ==
    (hist.kind = "instr" /\ fault = "none") => cpu = call("execute_instruction", <<hist.pre>>).cpu

\* The request is asserted at an instruction boundary with Interrupt-Disable 0.
IrqAsserted == irq_line /\ ~Bit(cpu.reg.status, InterruptDisable) /\ fault = "none"

(***************************************************************************)
(* Subroutine call and return: JSR at PC, then RTS at the target.          *)
(***************************************************************************)

\* Store the machine s in the variables; a panic leaves them as they were.
Install(s) ==
    /\ fault' = s.fault
    /\ IF s.fault = "none"
       THEN /\ cpu' = s.cpu
            /\ ram' = s.ram
            /\ nmi_line' = s.nmi_line
            /\ ppu' = s.ppu
            /\ controller' = s.controller
            /\ cart' = s.cart
       ELSE UNCHANGED <<cpu, ram, nmi_line, ppu, controller, cart>>

\* The JSR is in the cartridge (at $FFFD the return address wraps) and the
\* stack pointer anywhere (at 0 and 1 the pushes wrap).
InitJsr ==
    /\ \E pc \in {32768, 33022, 49407, 65533}, sp \in {0, 1, 2, 128, 253, 255} :
          cpu = [reg |-> [pc |-> pc, sp |-> sp, a |-> 0, x |-> 32, y |-> 32, status |-> 36],
                 nmi_triggered |-> FALSE]
    /\ ram \in InitRams
    /\ ppu \in {PpuOn, PpuBeforeVblank}
    /\ cart = NromCart("Horizontal", 1)
    /\ nmi_line = TRUE
    /\ controller = NewController
    /\ apu = NewApu
    /\ irq_line = FALSE
    /\ fault = "none"
    /\ hist = [kind |-> "init", pc |-> 0, sp |-> 0, target |-> 0]
    /\ fuel = 0

\* Cpu::execute with JSR lo hi at PC.
ExecuteJsr(lo, hi) ==
    /\ fault = "none"
    /\ hist.kind = "init"
    /\ LET retire(r) ==
               /\ Install(r.s)
               /\ hist' = [kind |-> "jsr", pc |-> cpu.reg.pc, sp |-> cpu.reg.sp,
                           target |-> hi * 256 + lo]
       IN  retire(call("execute", <<Mach(<<32, lo, hi>>)>>))
    /\ UNCHANGED <<apu, irq_line, fuel>>

\* Cpu::execute with RTS at PC, the next call after the JSR; it enters the
\* NMI instead when the JSR ended with the edge detected.
ExecuteRts ==
    /\ fault = "none"
    /\ hist.kind = "jsr"
    /\ LET retire(r) ==
               /\ Install(r.s)
               /\ hist' = [hist EXCEPT !.kind = IF r.nmi THEN "nmi" ELSE "rts"]
       IN  retire(call("execute", <<Mach(<<96, 0, 0>>)>>))
    /\ UNCHANGED <<apu, irq_line, fuel>>

NextJsr ==
    \/ \E t \in {<<0, 128>>, <<35, 193>>, <<255, 255>>} : ExecuteJsr(t[1], t[2])
    \/ ExecuteRts

SpecJsr == InitJsr /\ [][NextJsr]_vars

MaxBusOps == 2

\* Dots from the position of PPU p to the position of PPU q.
DotsBetween(p, q) == (PpuPos(q) - PpuPos(p)) % DotsPerFrame

\* The record of a call of the bus that started from the machine pre and
\* left the machine s: its kind, address and value (the count of a step, the
\* byte written, the byte a read returned), the CPU cycles the PPU had been
\* stepped for when the call started, and the call before it.
BusHist(kind, address, value, pre, s) ==
    [kind |-> kind, address |-> address, value |-> value, pre |-> pre,
     clock |-> hist.clock + (DotsBetween(hist.pre.ppu, pre.ppu) \div 3),
     prev |-> [kind |-> hist.kind, address |-> hist.address, value |-> hist.value,
               pre |-> hist.pre]]

\* The variables other than the machine's at the start of a run of the bus.
InitBus ==
    /\ cpu = NewCpu
    /\ nmi_line = ~(ppu.vblank /\ ppu.gen_nmi_at_vblank)
    /\ controller = NewController
    /\ apu = NewApu
    /\ irq_line = FALSE
    /\ fault = "none"
    /\ hist = [kind |-> "init", address |-> 0, value |-> 0, pre |-> Mach(<<0, 0, 0>>),
               clock |-> 0, prev |-> [kind |-> "none"]]
    /\ fuel = MaxBusOps

\* Cpu::step_cycle
BusStep(count) ==
    /\ fault = "none"
    /\ fuel > 0
    /\ LET pre == Mach(<<0, 0, 0>>)
           done(s) == Install(s) /\ hist' = BusHist("step", 0, count, pre, s)
       IN  done(call("Cpu_step_cycle", <<pre, count>>))
    /\ fuel' = fuel - 1
    /\ UNCHANGED <<apu, irq_line>>

\* Machine::read_mem
BusRead(address) ==
    /\ fault = "none"
    /\ fuel > 0
    /\ LET pre == Mach(<<0, 0, 0>>)
           done(r) == Install(r.s) /\ hist' = BusHist("read", address, r.v, pre, r.s)
       IN  done(call("Machine_read_mem", <<pre, address>>))
    /\ fuel' = fuel - 1
    /\ UNCHANGED <<apu, irq_line>>

\* Machine::write_mem
BusWrite(address, value) ==
    /\ fault = "none"
    /\ fuel > 0
    /\ LET pre == Mach(<<0, 0, 0>>)
           done(s) == Install(s) /\ hist' = BusHist("write", address, value, pre, s)
       IN  done(call("Machine_write_mem", <<pre, address, value>>))
    /\ fuel' = fuel - 1
    /\ UNCHANGED <<apu, irq_line>>

---------------------------------------------------------------------------
(* The PPU's position under the steps of the bus.                          *)

\* PpuOn at a line and dot of a later frame; the flag is the one step_cycle
\* left when it entered the line.
PpuAt(line, dot) ==
    [PpuOn EXCEPT !.scan_line = line, !.cycle_count = dot,
                  !.vblank = line >= VBLANK_LINE]

\* The PPUs the runs start from: at power-on (rendering), and with rendering
\* off before the ends of a visible line, of the last visible line, of the
\* line before the vertical blank, of the last line and of the pre-render
\* line, with and without a sprite-0 hit from the frame before.
StartPpus ==
    {NewPpu}
    \cup {PpuAt(d[1], d[2]) :
             d \in {<<0, 338>>, <<239, 337>>, <<240, 336>>, <<240, 338>>, <<240, 339>>,
                    <<240, 340>>, <<241, 2>>, <<260, 336>>, <<260, 338>>, <<260, 339>>,
                    <<260, 340>>, <<-1, 339>>}}
    \cup {[PpuAt(260, d) EXCEPT !.sprite0_hit = TRUE] : d \in {337, 338}}

InitSteps ==
    /\ ppu \in StartPpus
    /\ ram = Empty
    /\ cart = NromCart("Horizontal", 1)
    /\ InitBus

\* The counts are the ones the instructions pass to step_cycle.
NextSteps == \E count \in 1 .. 7 : BusStep(count)

SpecSteps == InitSteps /\ [][NextSteps]_vars

\* C12: after any sequence of bus steps the dot is in 0..340 and the scanline
\* in -1..260, and a step of count CPU cycles has advanced the PPU by 3 * count
\* dots in the frame of 341 * 262 dots, in which the dot after 340 is dot 0 of
\* the next scanline and the scanline after 260 is -1.
C12_PpuPosition ==
    /\ ppu.cycle_count \in 0 .. 340
    /\ ppu.scan_line \in -1 .. 260
    /\ hist.kind = "step" =>
          (ppu.scan_line + 1) * 341 + ppu.cycle_count
              = ((hist.pre.ppu.scan_line + 1) * 341 + hist.pre.ppu.cycle_count
                   + 3 * hist.value) % (341 * 262)

\* A step has taken the PPU from the last scanline to the pre-render one.
C12_Witness ==
    /\ hist.kind = "step"
    /\ hist.pre.ppu.scan_line = 260
    /\ ppu.scan_line = -1
    /\ ppu.cycle_count < 3

\* C13: the vertical-blank flag is set from dot 1 of scanline 241 on and
\* cleared, with the sprite-0 hit, at dot 1 of the pre-render scanline: it is
\* clear at dot 0 of scanline 241 and the two flags are as they were at dot 0
\* of the pre-render scanline.
C13_VblankAtDot1 ==
    hist.kind = "step" =>
        /\ (ppu.scan_line = 241 /\ ppu.cycle_count = 0) => ~ppu.vblank
        /\ (ppu.scan_line = 241 /\ ppu.cycle_count >= 1) => ppu.vblank
        /\ (ppu.scan_line = -1 /\ ppu.cycle_count = 0) =>
               /\ ppu.vblank = hist.pre.ppu.vblank
               /\ ppu.sprite0_hit = hist.pre.ppu.sprite0_hit
        /\ (ppu.scan_line = -1 /\ ppu.cycle_count >= 1) =>
               ~ppu.vblank /\ ~ppu.sprite0_hit

---------------------------------------------------------------------------
(* The PPU's registers under the reads and writes of the CPU.              *)

\* The PPU in the vertical blank or on a visible line, rendering off, as the
\* writes of $2000, $2003, $2005, $2006 and $2007 and the frame before left
\* it.
RegPpu(line, hit, oam_addr, increment, t, v, x, w) ==
    [PpuAt(line, 10) EXCEPT
        !.sprite0_hit = hit, !.oam_addr = oam_addr, !.vram_addr_increment = increment,
        !.reg.t = t, !.reg.v = v, !.reg.x = x, !.reg.w = w,
        !.oam = (0 :> 17) @@ (1 :> 34) @@ (255 :> 51),
        !.palette_ram = (0 :> 9) @@ (15 :> 33) @@ (17 :> 44),
        !.vram = (0 :> 5) @@ (1 :> 6) @@ (32 :> 7) @@ (1023 :> 8)]

RegPpus ==
    {RegPpu(245, FALSE, 0, 1, 0, 0, 0, FALSE),
     RegPpu(245, TRUE, 255, 1, 32767, 16, 7, TRUE),
     RegPpu(245, TRUE, 1, 32, 10940, 8192, 5, FALSE),
     RegPpu(250, FALSE, 254, 1, 21845, 16143, 2, TRUE),
     RegPpu(100, FALSE, 0, 1, 1024, 16127, 0, FALSE),
     RegPpu(100, TRUE, 7, 32, 15, 16, 1, TRUE),
     RegPpu(-1, FALSE, 0, 1, 0, 16128, 0, FALSE),
     RegPpu(-1, FALSE, 0, 32, 3072, 16368, 3, TRUE)}

InitRegisters ==
    /\ ppu \in RegPpus
    /\ ram = Empty
    /\ cart = NromCart("Horizontal", 1)
    /\ InitBus

\* The addresses of the eight registers, and of $2002, $2005 and $2006 in
\* the last mirror.
RegAddresses == 8192 .. 8199 \cup {16378, 16381, 16382}
RegValues == {0, 3, 93, 132, 168, 255}

NextRegisters ==
    \/ \E address \in RegAddresses : BusRead(address)
    \/ \E address \in RegAddresses \ {8194, 16378}, value \in RegValues :
          BusWrite(address, value)

SpecRegisters == InitRegisters /\ [][NextRegisters]_vars

\* The register an address of $2000..$3FFF selects.
RegisterOf(address) == 8192 + (address % 8)

\* C14: a read of $2002 returns the vertical-blank flag in bit 7 and the
\* sprite-0 hit in bit 6, clears the vertical-blank flag and w and changes
\* nothing else; a read of $2000, $2001, $2003, $2005 or $2006 returns 0 and
\* changes nothing.
C14_StatusRead ==
    (hist.kind = "read" /\ fault = "none") =>
        /\ RegisterOf(hist.address) = 8194 =>
              /\ hist.value = (IF hist.pre.ppu.vblank THEN 128 ELSE 0)
                                + (IF hist.pre.ppu.sprite0_hit THEN 64 ELSE 0)
              /\ ppu = [hist.pre.ppu EXCEPT !.vblank = FALSE, !.reg.w = FALSE]
              /\ <<ram, cart, controller, cpu>>
                    = <<hist.pre.ram, hist.pre.cart, hist.pre.controller, hist.pre.cpu>>
        /\ RegisterOf(hist.address) \in {8192, 8193, 8195, 8197, 8198} =>
              /\ hist.value = 0
              /\ ppu = hist.pre.ppu
              /\ <<ram, cart, controller, cpu>>
                    = <<hist.pre.ram, hist.pre.cart, hist.pre.controller, hist.pre.cpu>>

\* $2002 has been read in the vertical blank with the sprite-0 hit and w set.
C14_Witness ==
    /\ hist.kind = "read"
    /\ fault = "none"
    /\ RegisterOf(hist.address) = 8194
    /\ hist.pre.ppu.vblank
    /\ hist.pre.ppu.sprite0_hit
    /\ hist.pre.ppu.reg.w
    /\ hist.value = 192
    /\ ~ppu.vblank
    /\ ~ppu.reg.w

\* C17: a write of a value to $2004 stores it at OAM[oam_addr] and increments
\* the OAM address by 1 mod 256.
C17_OamDataWrite ==
    (hist.kind = "write" /\ RegisterOf(hist.address) = 8196 /\ fault = "none") =>
        /\ Get(ppu.oam, 0, hist.pre.ppu.oam_addr) = hist.value
        /\ ppu.oam_addr = (hist.pre.ppu.oam_addr + 1) % 256

\* The byte the PPU's bus holds at ppu_address in the machine m.
VideoByte(m, ppu_address) == call("read_mem_ppu", <<m, ppu_address>>).v

\* C18: a read of $2007 adds the VRAM increment to v; with v in the palette
\* it returns the palette byte at v, and with v below $3F00 it returns the
\* read buffer, which after a read of $2007 below $3F00 holds the byte that
\* read fetched, the one at its v.
C18_BufferedRead ==
    (hist.kind = "read" /\ RegisterOf(hist.address) = 8199 /\ fault = "none") =>
        /\ ppu.reg.v = hist.pre.ppu.reg.v + hist.pre.ppu.vram_addr_increment
        /\ hist.pre.ppu.reg.v >= 16128 =>
              hist.value = VideoByte(hist.pre, hist.pre.ppu.reg.v)
        /\ (/\ hist.pre.ppu.reg.v < 16128
            /\ hist.prev.kind = "read"
            /\ RegisterOf(hist.prev.address) = 8199
            /\ hist.prev.pre.ppu.reg.v < 16128) =>
              hist.value = VideoByte(hist.prev.pre, hist.prev.pre.ppu.reg.v)

\* The registers t, v, x and w of the reference model after the write of
\* value to the register, from the registers r.
RefWrite(r, register, value) ==
    LET low(n, bits) == n % (2 ^ bits)
        high(n, bits) == n \div (2 ^ bits)
        \* n with the bits from..from+len-1 replaced by the low len bits of field
        with(n, from, len, field) ==
            low(n, from) + low(field, len) * (2 ^ from) + high(n, from + len) * (2 ^ (from + len))
    IN  CASE register = 8192 -> [r EXCEPT !.t = with(r.t, 10, 2, value)]
          [] register = 8197 /\ ~r.w ->
                 [r EXCEPT !.t = with(r.t, 0, 5, high(value, 3)), !.x = low(value, 3),
                           !.w = TRUE]
          [] register = 8197 /\ r.w ->
                 [r EXCEPT !.t = with(with(r.t, 12, 3, value), 5, 5, high(value, 3)),
                           !.w = FALSE]
          [] register = 8198 /\ ~r.w ->
                 [r EXCEPT !.t = with(with(r.t, 8, 6, value), 14, 1, 0), !.w = TRUE]
          [] register = 8198 /\ r.w ->
                 [r EXCEPT !.t = with(r.t, 0, 8, value), !.v = with(r.t, 0, 8, value),
                           !.w = FALSE]
          [] OTHER -> r

\* The four registers of a PPU.
Scroll(p) == [t |-> p.reg.t, v |-> p.reg.v, x |-> p.reg.x, w |-> p.reg.w]

\* C20: a write of $2000, $2005 or $2006 and a read of $2002 leave t, v, x
\* and w as the reference model does from the registers before it, so that
\* the registers agree after any sequence of them: $2000 copies bits 0-1 of
\* the value to bits 10-11 of t; $2005 sets coarse X and fine X when w is 0
\* and fine Y and coarse Y when w is 1; $2006 sets bits 8-13 of t and clears
\* bit 14 when w is 0, and sets bits 0-7 of t and copies t to v when w is 1;
\* the writes of $2005 and $2006 flip w and the read of $2002 clears it.
C20_ScrollRegisters ==
    /\ (hist.kind = "write" /\ fault = "none"
          /\ RegisterOf(hist.address) \in {8192, 8197, 8198}) =>
           Scroll(ppu) = RefWrite(Scroll(hist.pre.ppu), RegisterOf(hist.address), hist.value)
    /\ (hist.kind = "read" /\ fault = "none" /\ RegisterOf(hist.address) = 8194) =>
           Scroll(ppu) = [Scroll(hist.pre.ppu) EXCEPT !.w = FALSE]

\* $2002 was read and then $2005 written: a first write, whatever w was.
C20_Witness ==
    /\ hist.kind = "write"
    /\ fault = "none"
    /\ RegisterOf(hist.address) = 8197
    /\ hist.value = 93
    /\ hist.prev.kind = "read"
    /\ RegisterOf(hist.prev.address) = 8194
    /\ hist.prev.pre.ppu.reg.w
    /\ hist.prev.pre.ppu.reg.t = 32767
    /\ ppu.reg.t = 32747
    /\ ppu.reg.x = 5
    /\ ppu.reg.w

---------------------------------------------------------------------------
(* The sprite DMA: writes of $4014 between the steps of the bus.           *)

\* RAM with sprites in the pages 0, 2 and 7.
DmaRam ==
    (0 :> 1) @@ (3 :> 2) @@ (255 :> 3) @@ (512 :> 40) @@ (513 :> 41) @@ (515 :> 42)
      @@ (767 :> 43) @@ (1792 :> 70) @@ (2047 :> 71)

InitDma ==
    /\ ppu \in {NewPpu, PpuAt(245, 10), PpuAt(100, 339)}
    /\ ram \in {Empty, DmaRam}
    /\ cart = NromCart("Horizontal", 1)
    /\ InitBus

\* The pages are of the RAM, of its mirrors, of the PPU's registers, of the
\* I/O space and of the cartridge.
NextDma ==
    \/ \E count \in {1, 2} : BusStep(count)
    \/ \E page \in {0, 2, 7, 8, 10, 32, 64, 128, 255} : BusWrite(16404, page)

SpecDma == InitDma /\ [][NextDma]_vars

\* C15: a write of HH to $4014 copies the 256 bytes the CPU reads at
\* $HH00..$HHFF into the OAM, and does not fault, whatever the page HH.
C15_DmaCopiesPage ==
    (hist.kind = "write" /\ hist.address = 16404) =>
        /\ fault = "none"
        /\ \A i \in 0 .. 255 :
              Get(ppu.oam, 0, i) = call("Machine_read_mem", <<hist.pre, hist.value * 256 + i>>).v

\* C16: the DMA of a write of $4014 takes 513 CPU cycles when it starts on
\* an even cycle and 514 when it starts on an odd one, and the PPU advances
\* by 3 dots for each of them.
C16_DmaCycles ==
    (hist.kind = "write" /\ hist.address = 16404 /\ fault = "none") =>
        DotsBetween(hist.pre.ppu, ppu) = 3 * (513 + (hist.clock % 2))

---------------------------------------------------------------------------
(* The palette under the writes of the PPU's bus.                          *)

\* Palette writes in one run.
MaxPaletteWrites == 3

InitPalette ==
    /\ cpu = NewCpu
    /\ ram = Empty
    /\ ppu = PpuAt(245, 10)
    /\ cart = NromCart("Horizontal", 1)
    /\ nmi_line = FALSE
    /\ controller = NewController
    /\ apu = NewApu
    /\ irq_line = FALSE
    /\ fault = "none"
    /\ hist = [kind |-> "init", address |-> 0, value |-> 0, cells |-> Empty]
    /\ fuel = MaxPaletteWrites

\* The cell of the palette that the address names: the entry 0 of a sprite
\* palette is the entry 0 of the background palette of the same number.
PaletteCell(address) ==
    LET entry == address % 32
    IN  IF entry \in {16, 20, 24, 28} THEN entry - 16 ELSE entry

\* Ppu::write_mem_ppu with an address of the palette, which is v at a write
\* of $2007; cells are the cells of the reference palette.
PaletteWrite(address, value) ==
    /\ fault = "none"
    /\ fuel > 0
    /\ LET done(s) ==
               /\ Install(s)
               /\ hist' = [kind |-> "palette", address |-> address, value |-> value,
                           cells |-> Put(hist.cells, 0, PaletteCell(address), value)]
       IN  done(call("write_mem_ppu", <<Mach(<<0, 0, 0>>), address, value>>))
    /\ fuel' = fuel - 1
    /\ UNCHANGED <<apu, irq_line>>

\* The addresses are the eight entries 0, entries that are cells of their
\* own, and mirrors of the palette.
NextPalette ==
    \E address \in {16128, 16132, 16136, 16140, 16144, 16148, 16152, 16156,
                    16129, 16145, 16143, 16159, 16160, 16368},
       value \in {17, 42} :
        PaletteWrite(address, value)

SpecPalette == InitPalette /\ [][NextPalette]_vars

\* C19: after any sequence of palette writes, every palette address reads
\* back the last value written to its cell, where $3F10, $3F14, $3F18 and
\* $3F1C share the cells of $3F00, $3F04, $3F08 and $3F0C and every other
\* entry is a cell of its own.
C19_PaletteMirrors ==
    \A address \in 16128 .. 16159 \cup {16160, 16368, 16383} :
        call("read_mem_ppu", <<Mach(<<0, 0, 0>>), address>>)
            = [v |-> Get(hist.cells, 0, PaletteCell(address)), fault |-> "none"]

\* $3F14 was written after $3F01 and $3F00: $3F04 reads the value of the
\* last write, $3F01 its own and $3F10 that of $3F00.
C19_Witness ==
    /\ hist.kind = "palette"
    /\ hist.address = 16148
    /\ hist.value = 42
    /\ call("read_mem_ppu", <<Mach(<<0, 0, 0>>), 16132>>).v = 42
    /\ call("read_mem_ppu", <<Mach(<<0, 0, 0>>), 16148>>).v = 42
    /\ call("read_mem_ppu", <<Mach(<<0, 0, 0>>), 16129>>).v = 17
    /\ call("read_mem_ppu", <<Mach(<<0, 0, 0>>), 16144>>).v = 17

---------------------------------------------------------------------------
(* The sprite-0 hit, dot by dot.                                           *)

\* Dots of one run.
MaxDots == 12

\* The PPU on the line before the one sprite 0 is drawn on, past the last
\* shift of the background registers: rendering is on, the OAM holds sprite
\* 0 with tile 1 at column x and the first name table holds the tile bg in
\* the cells of the line.
Sprite0Ppu(x, bg, bg_left, sprites_left) ==
    [NewPpu EXCEPT !.scan_line = 19, !.cycle_count = 321,
                   !.background_leftmost_enabled = bg_left,
                   !.sprites_leftmost_enabled = sprites_left,
                   !.oam = (0 :> 19) @@ (1 :> 1) @@ (3 :> x),
                   !.vram = [i \in {j \in 0 .. 33 : bg # 0} |-> bg]]

\* The machine with the PPU p after n iterations of the loop of
\* Ppu::step_cycle.
DotsFrom(p, n) ==
    call("ppu_dots", <<[cpu |-> NewCpu, ram |-> Empty, nmi_line |-> TRUE, ppu |-> p,
              controller |-> NewController, cart |-> NromCart("Horizontal", 1),
              fault |-> "none", writes |-> <<>>, edge |-> FALSE, cycles |-> 0,
              code |-> <<0, 0, 0>>], n>>)

\* The runs start on line 20, two dots before the sprite's column.
InitSprite0 ==
    /\ \E x \in {0, 3, 5, 100, 247, 252, 255}, bg \in {0, 1}, bg_left \in BOOLEAN,
          sprites_left \in BOOLEAN :
          LET start(s) == ppu = s.ppu /\ cart = s.cart
          IN  start(DotsFrom(Sprite0Ppu(x, bg, bg_left, sprites_left),
                             20 + (IF x < 2 THEN 0 ELSE x - 2)))
    /\ cpu = NewCpu
    /\ ram = Empty
    /\ nmi_line = TRUE
    /\ controller = NewController
    /\ apu = NewApu
    /\ irq_line = FALSE
    /\ fault = "none"
    /\ hist = [kind |-> "init", pre |-> Mach(<<0, 0, 0>>)]
    /\ fuel = MaxDots

\* One iteration of the loop of Ppu::step_cycle.
PpuDot ==
    /\ fault = "none"
    /\ fuel > 0
    /\ LET pre == Mach(<<0, 0, 0>>)
           done(s) == Install(s) /\ hist' = [kind |-> "dot", pre |-> pre]
       IN  done(call("ppu_dots", <<pre, 1>>))
    /\ fuel' = fuel - 1
    /\ UNCHANGED <<apu, irq_line>>

NextSprite0 == PpuDot

SpecSprite0 == InitSprite0 /\ [][NextSprite0]_vars

\* Sprite 0 of the OAM of machine m has a nonzero pattern pixel at the dot
\* and line of the PPU: its row is the line less the line after its Y.
Sprite0Opaque(m) ==
    LET p == m.ppu
        sprite_y == Get(p.oam, 0, 0)
        tile == Get(p.oam, 0, 1)
        attr == Get(p.oam, 0, 2)
        sprite_x == Get(p.oam, 0, 3)
        column == p.cycle_count - sprite_x
        row == p.scan_line - (sprite_y + 1)
        tile_x == IF (attr \div 64) % 2 = 1 THEN 7 - column ELSE column
        tile_y == IF (attr \div 128) % 2 = 1 THEN 7 - row ELSE row
        plane(k) == call("read_mem_ppu", <<m, p.sprite_pattern_table_addr + tile * 16 + k + tile_y>>).v
        bit(byte) == (byte \div (2 ^ (7 - tile_x))) % 2
    IN  /\ column \in 0 .. 7
        /\ row \in 0 .. 7
        /\ bit(plane(0)) + bit(plane(8)) > 0

\* The background's pattern pixel at the dot of the PPU p is nonzero.
BackgroundOpaque(p) ==
    LET bit(word) == (word \div (2 ^ (15 - p.reg.x))) % 2
    IN  bit(p.reg.bg_pattern_lower) + bit(p.reg.bg_pattern_upper) > 0

\* The dot of machine m is one where the hit is asserted.
Sprite0HitDot(m) ==
    /\ m.ppu.background_enabled
    /\ m.ppu.sprites_enabled
    /\ m.ppu.scan_line \in 0 .. 239
    /\ m.ppu.cycle_count \in 0 .. 254
    /\ m.ppu.cycle_count >= 8
          \/ (m.ppu.background_leftmost_enabled /\ m.ppu.sprites_leftmost_enabled)
    /\ Sprite0Opaque(m)
    /\ BackgroundOpaque(m.ppu)

\* C21: the sprite-0 hit is set only at a dot where sprite 0's nonzero
\* pattern pixel coincides with a nonzero background pattern pixel, which is
\* not the rightmost dot (255) and not in the left 8 pixels while the
\* background's or the sprites' left column is off; and it is set at the
\* first such dot.
C21_Sprite0Hit ==
    (hist.kind = "dot" /\ fault = "none" /\ ~hist.pre.ppu.sprite0_hit) =>
        (ppu.sprite0_hit <=> Sprite0HitDot(hist.pre))

---------------------------------------------------------------------------
(* The controller port: writes and reads of $4016 between key events.      *)

\* Key events, writes and reads of one run.
MaxPadOps == 12

\* keys is the state of the buttons when the strobe last fell, reads the
\* number of reads of $4016 since then, and armed tells that it has fallen.
InitPad ==
    /\ cpu = NewCpu
    /\ ram = Empty
    /\ ppu = PpuOn
    /\ cart = NromCart("Horizontal", 1)
    /\ nmi_line = TRUE
    /\ \E held \in {{}, {0, 7}, {1, 3, 4}} :
          controller = [NewController EXCEPT !.key_state = [i \in 0 .. 7 |-> i \in held]]
    /\ apu = NewApu
    /\ irq_line = FALSE
    /\ fault = "none"
    /\ hist = [kind |-> "init", value |-> 0, pre |-> controller,
               keys |-> controller.key_state, reads |-> 0, armed |-> FALSE]
    /\ fuel = MaxPadOps

\* Controller::handle_key_change, called by Machine::handle_events.
KeyChange(key, is_pressed) ==
    /\ fault = "none"
    /\ fuel > 0
    /\ controller' = handle_key_change(controller, key, is_pressed)
    /\ hist' = [hist EXCEPT !.kind = "key", !.value = key, !.pre = controller]
    /\ fuel' = fuel - 1
    /\ UNCHANGED <<cpu, ram, nmi_line, ppu, cart, apu, irq_line, fault>>

\* Machine::write_mem of value to $4016.
PadWrite(value) ==
    /\ fault = "none"
    /\ fuel > 0
    /\ LET fell == controller.strobe /\ value % 2 = 0
           done(s) ==
               /\ Install(s)
               /\ hist' = [kind |-> "write", value |-> value, pre |-> controller,
                           keys |-> IF fell THEN controller.key_state ELSE hist.keys,
                           reads |-> IF fell \/ value % 2 = 1 THEN 0 ELSE hist.reads,
                           armed |-> IF value % 2 = 1 THEN FALSE ELSE fell \/ hist.armed]
       IN  done(call("Machine_write_mem", <<Mach(<<0, 0, 0>>), 16406, value>>))
    /\ fuel' = fuel - 1
    /\ UNCHANGED <<apu, irq_line>>

\* Machine::read_mem of $4016.
PadRead ==
    /\ fault = "none"
    /\ fuel > 0
    /\ LET done(r) ==
               /\ Install(r.s)
               /\ hist' = [hist EXCEPT !.kind = "read", !.value = r.v, !.pre = controller,
                                       !.reads = IF controller.strobe THEN 0 ELSE @ + 1]
       IN  done(call("Machine_read_mem", <<Mach(<<0, 0, 0>>), 16406>>))
    /\ fuel' = fuel - 1
    /\ UNCHANGED <<apu, irq_line>>

NextPad ==
    \/ \E key \in {0, 1}, is_pressed \in BOOLEAN : KeyChange(key, is_pressed)
    \/ \E value \in {0, 1} : PadWrite(value)
    \/ PadRead

SpecPad == InitPad /\ [][NextPad]_vars

\* C22: after the strobe was written 1 and then 0, the first eight reads of
\* $4016 return the states the buttons A, B, Select, Start, Up, Down, Left
\* and Right had when it fell, in that order; while the strobe is high a
\* read returns the state of A and does not advance the position.
C22_PadReads ==
    hist.kind = "read" =>
        /\ hist.pre.strobe =>
              /\ fault = "none"
              /\ hist.value = (IF hist.pre.key_state[0] THEN 1 ELSE 0)
              /\ controller = hist.pre
        /\ (~hist.pre.strobe /\ hist.armed /\ hist.reads \in 1 .. 8) =>
              /\ fault = "none"
              /\ hist.value = (IF hist.keys[hist.reads - 1] THEN 1 ELSE 0)

\* C23: after the eight bits, the ninth and every later read of $4016
\* without a new strobe returns 1 and does not fault.
C23_PadOnes ==
    (hist.kind = "read" /\ ~hist.pre.strobe /\ hist.armed /\ hist.reads >= 9) =>
        /\ fault = "none"
        /\ hist.value = 1
---------------------------------------------------------------------------
(* The frame counter of the APU, stepped one CPU cycle at a time.          *)

\* Cycles and writes of $4017 of one run.
MaxApuCycles == 12

\* elapsed counts the cycles since the write at power-on, reports the cycles
\* of the running period of 29830 cycles that reported a request (none does
\* before the starts chosen here), since the cycles since the last write of
\* $4017 (-1 before it) and writes these writes.
InitApu ==
    /\ cpu = NewCpu
    /\ ram = Empty
    /\ ppu = PpuOn
    /\ cart = NromCart("Horizontal", 1)
    /\ nmi_line = TRUE
    /\ controller = NewController
    /\ irq_line = FALSE
    /\ fault = "none"
    /\ \E n \in {0, 7450, 14906, 22364, 29822, 37274}, value \in {0, 64, 128, 192} :
          /\ n < (IF value >= 128 THEN 18641 * 2 ELSE 14915 * 2)
          /\ apu = ApuAt(n, value)
          /\ hist = [kind |-> "init", value |-> value, pre |-> apu, irq |-> FALSE,
                     clock |-> "none", elapsed |-> n, reports |-> 0, since |-> -1,
                     writes |-> 0]
    /\ fuel = MaxApuCycles

\* Apu::step_cycle(1).
ApuStep ==
    /\ fuel > 0
    /\ LET done(r) ==
               /\ apu' = r.apu
               /\ hist' = [hist EXCEPT
                              !.kind = "step", !.pre = apu, !.irq = r.irq,
                              !.clock = frame_clocks(apu.frame_counter_sequence = "FourStep",
                                                     r.apu.cycle_count),
                              !.elapsed = @ + 1,
                              !.reports = (IF hist.elapsed % (14915 * 2) = 0 THEN 0 ELSE @)
                                          + (IF r.irq THEN 1 ELSE 0),
                              !.since = IF @ < 0 THEN @ ELSE @ + 1]
       IN  done(call("Apu_step_cycle", <<apu, 1>>))
    /\ fuel' = fuel - 1
    /\ UNCHANGED <<cpu, ram, nmi_line, ppu, controller, cart, irq_line, fault>>

\* Apu::write_mem of value to $4017.
ApuWrite(value) ==
    /\ fuel > 0
    /\ hist.writes < 2
    /\ apu' = call("Apu_write_mem", <<apu, 16407, value>>)
    /\ hist' = [hist EXCEPT !.kind = "write", !.value = value, !.pre = apu,
                            !.irq = FALSE, !.clock = "none", !.since = 0,
                            !.writes = @ + 1]
    /\ fuel' = fuel - 1
    /\ UNCHANGED <<cpu, ram, nmi_line, ppu, controller, cart, irq_line, fault>>

NextApu ==
    \/ ApuStep
    \/ \E value \in {0, 64, 128, 192} : ApuWrite(value)

SpecApu == InitApu /\ [][NextApu]_vars

\* C24: in four-step mode with the inhibit flag clear, stepped one CPU cycle
\* at a time, the frame interrupt is reported on exactly one cycle of each
\* period of 29830 cycles; with the inhibit flag set it is never reported.
C24_FrameIrqOnce ==
    hist.kind = "step" /\ hist.writes = 0 /\ hist.value < 128 =>
        IF hist.pre.interrupt_inhibit_flag THEN ~hist.irq
        ELSE /\ hist.reports <= 1
             /\ hist.elapsed % (14915 * 2) = 0 => hist.reports = 1

\* C25: a write of $4017 resets the cycle count of the frame counter and
\* sets the mode from bit 7 and the inhibit flag from bit 6 of the value, so
\* that the next quarter-frame clock comes 7457 cycles after the write.
C25_FrameCounterReset ==
    /\ hist.kind = "write" =>
          /\ apu.cycle_count = 0
          /\ apu.frame_counter_sequence
                 = (IF hist.value >= 128 THEN "FiveStep" ELSE "FourStep")
          /\ apu.interrupt_inhibit_flag = ((hist.value \div 64) % 2 = 1)
    /\ hist.kind = "step" /\ hist.since >= 0 =>
          (hist.clock # "none") = (hist.since = 7457)

\* C26: in five-step mode the quarter-frame and the half-frame clock are
\* issued together at cycles 7457, 14913 and 37281 of each period, no clock
\* is issued at another cycle, and no interrupt is ever reported.
C26_FiveStepClocks ==
    hist.kind = "step" /\ hist.pre.frame_counter_sequence = "FiveStep" =>
        /\ hist.clock = (IF apu.cycle_count \in {7457, 14913, 37281} THEN "half"
                         ELSE "none")
        /\ ~hist.irq
---------------------------------------------------------------------------
(* Pulse channel 1 after the register writes of a square wave.             *)

\* Register writes and steps of one run.
MaxPulseOps == 16

\* The writes $4000=$80, $4002=$FE, $4003=$00, $4000=$38, $4015=$01, and the
\* same writes with the enabling one first.
PulseScripts ==
    [enable_last |-> <<<<16384, 128>>, <<16386, 254>>, <<16387, 0>>, <<16384, 56>>,
                       <<16405, 1>>>>,
     enable_first |-> <<<<16405, 1>>, <<16384, 128>>, <<16386, 254>>, <<16387, 0>>,
                        <<16384, 56>>>>]

\* script is the order of the writes, written the number of them done and
\* phases the output levels of pulse 1 after each step since the last one.
InitPulse ==
    /\ cpu = NewCpu
    /\ ram = Empty
    /\ ppu = PpuOn
    /\ cart = NromCart("Horizontal", 1)
    /\ nmi_line = TRUE
    /\ controller = NewController
    /\ irq_line = FALSE
    /\ fault = "none"
    /\ apu = NewApu
    /\ \E script \in DOMAIN PulseScripts :
          hist = [kind |-> "init", script |-> script, written |-> 0, phases |-> <<>>,
                  pre |-> apu]
    /\ fuel = MaxPulseOps

\* Apu::write_mem of the next write of the script.
PulseWrite ==
    /\ fuel > 0
    /\ hist.written < Len(PulseScripts[hist.script])
    /\ LET write == PulseScripts[hist.script][hist.written + 1]
       IN  apu' = call("Apu_write_mem", <<apu, write[1], write[2]>>)
    /\ hist' = [hist EXCEPT !.kind = "write", !.written = @ + 1, !.phases = <<>>,
                            !.pre = apu]
    /\ fuel' = fuel - 1
    /\ UNCHANGED <<cpu, ram, nmi_line, ppu, controller, cart, irq_line, fault>>

\* Apu::step_cycle of the 2 * (254 + 1) CPU cycles of one phase of the
\* sequencer at the timer value of the script.
PulseStep ==
    /\ fuel > 0
    /\ LET done(r) ==
               /\ apu' = r.apu
               /\ hist' = [hist EXCEPT !.kind = "step", !.pre = apu,
                                       !.phases = Append(@, r.apu.pulse1.output_level)]
       IN  done(call("Apu_step_cycle", <<apu, 510>>))
    /\ fuel' = fuel - 1
    /\ UNCHANGED <<cpu, ram, nmi_line, ppu, controller, cart, irq_line, fault>>

NextPulse ==
    \/ PulseWrite
    \/ PulseStep

SpecPulse == InitPulse /\ [][NextPulse]_vars

\* C27: after the writes $4000=$80, $4002=$FE, $4003=$00, $4000=$38 and
\* $4015=$01 in that order from power-on, with no half-frame clock since,
\* the output level of pulse 1 runs through a sequence of 8 phases that
\* repeats and takes both values 0 and 8.
C27_PulseSquare ==
    hist.script = "enable_last" /\ hist.written = 5 /\ apu.cycle_count < 7456 * 2 + 1 =>
        /\ Len(hist.phases) >= 8 => {hist.phases[i] : i \in 1 .. 8} = {0, 8}
        /\ \A i \in 9 .. Len(hist.phases) : hist.phases[i] = hist.phases[i - 8]
---------------------------------------------------------------------------
(* The MMC1 cartridge: serial writes, PRG banks and PRG-RAM.               *)

\* Reads and writes of one run.
MaxMmc1Ops == 8

\* bits are the bits 0 written since the shift register was last empty, the
\* write recorded included, committed the last value the serial writes
\* formed for the PRG-bank register (-1 before it), and locked tells that a
\* write with bit 7 set was made and no control value was formed since;
\* selected are bits 0-1 of the last control value formed (-1 before it).
InitMmc1 ==
    /\ cpu = NewCpu
    /\ ram = Empty
    /\ ppu = PpuOn
    /\ nmi_line = TRUE
    /\ controller = NewController
    /\ apu = NewApu
    /\ irq_line = FALSE
    /\ fault = "none"
    /\ \E banks \in {2, 4} : cart = Mmc1Cart("Horizontal", banks, 1)
    /\ hist = [kind |-> "init", address |-> 0, value |-> 0, pre |-> cart,
               bits |-> <<>>, committed |-> -1, locked |-> FALSE, selected |-> -1]
    /\ fuel = MaxMmc1Ops

\* Cartridge::write_mem_cpu.
Mmc1Write(address, value) ==
    /\ fault = "none"
    /\ fuel > 0
    /\ LET serial == address >= 32768 /\ value < 128
           bits == IF ~serial THEN hist.bits
                   ELSE Append(IF Len(hist.bits) = 5 THEN <<>> ELSE hist.bits, value % 2)
           formed == bits[1] + 2 * bits[2] + 4 * bits[3] + 8 * bits[4] + 16 * bits[5]
           fifth == serial /\ Len(bits) = 5
           done(r) ==
               /\ cart' = r.c
               /\ fault' = r.fault
               /\ hist' = [hist EXCEPT
                              !.kind = "write", !.address = address, !.value = value,
                              !.pre = cart,
                              !.bits = IF address >= 32768 /\ value >= 128 THEN <<>> ELSE bits,
                              !.committed = IF fifth /\ address >= 57344 THEN formed ELSE @,
                              !.locked = IF address >= 32768 /\ value >= 128 THEN TRUE
                                         ELSE IF fifth /\ address < 40960 THEN FALSE
                                         ELSE @,
                              !.selected = IF fifth /\ address < 40960 THEN formed % 4 ELSE @]
       IN  done(cart_write_mem_cpu(cart, address, value))
    /\ fuel' = fuel - 1
    /\ UNCHANGED <<cpu, ram, nmi_line, ppu, controller, apu, irq_line>>

\* Cartridge::read_mem_cpu.
Mmc1Read(address) ==
    /\ fault = "none"
    /\ fuel > 0
    /\ LET done(r) ==
               /\ fault' = r.fault
               /\ hist' = [hist EXCEPT !.kind = "read", !.address = address, !.value = r.v,
                                       !.pre = cart,
                                       !.bits = IF Len(@) = 5 THEN <<>> ELSE @]
       IN  done(call("cart_read_mem_cpu", <<cart, address>>))
    /\ fuel' = fuel - 1
    /\ UNCHANGED <<cpu, ram, nmi_line, ppu, controller, cart, apu, irq_line>>

NextMmc1 ==
    \/ \E address \in {32768, 40960, 49152, 65535}, value \in {0, 1, 128} :
          Mmc1Write(address, value)
    \/ \E value \in {17, 42} : Mmc1Write(24576, value)
    \/ \E address \in {24576, 32768, 49152, 65535} : Mmc1Read(address)

SpecMmc1 == InitMmc1 /\ [][NextMmc1]_vars

\* The internal registers of the MMC1 as the values the serial writes form:
\* control (mirroring in bits 0-1, PRG mode in bits 2-3, CHR mode in bit 4),
\* CHR bank 0, CHR bank 1 and PRG bank.
Mmc1Registers(c) ==
    <<(IF c.mmc1_mirroring = "Vertical" THEN 2 ELSE 3)
          + (IF c.prg_swap_range_bit THEN 4 ELSE 0) + (IF c.prg_size_bit THEN 8 ELSE 0)
          + (IF c.chr_size_bit THEN 16 ELSE 0),
      c.chr_bank_0, c.chr_bank_1, c.prg_bank>>

\* C28: from an empty shift register, the first four writes to $8000-$FFFF
\* with bit 7 clear change no internal register; the fifth sets the register
\* selected by bits 13-14 of its address to the value formed from the five
\* bits 0 (the first write the least significant), leaves the other three
\* unchanged and empties the shift register.
C28_SerialWrites ==
    hist.kind = "write" /\ hist.address >= 32768 /\ hist.value < 128 =>
        IF Len(hist.bits) < 5
        THEN fault = "none" /\ Mmc1Registers(cart) = Mmc1Registers(hist.pre)
        ELSE /\ fault = "none"
             /\ Mmc1Registers(cart) =
                    [Mmc1Registers(hist.pre) EXCEPT
                        ![((hist.address \div 8192) % 4) + 1] =
                            hist.bits[1] + 2 * hist.bits[2] + 4 * hist.bits[3]
                            + 8 * hist.bits[4] + 16 * hist.bits[5]]
             /\ cart.shift = 0 /\ cart.shift_count = 0

\* C29: a write to $8000-$FFFF with bit 7 set, from any control state,
\* empties the shift register and selects the PRG mode that fixes the last
\* 16 KiB bank: reads of $C000-$FFFF afterwards return the last bank.
C29_ResetFixesLast ==
    /\ hist.kind = "write" /\ hist.address >= 32768 /\ hist.value >= 128 =>
          /\ fault = "none"
          /\ cart.shift = 0 /\ cart.shift_count = 0
          /\ cart.prg_size_bit /\ cart.prg_swap_range_bit
    /\ hist.kind = "read" /\ hist.address >= 49152 /\ hist.locked =>
          /\ fault = "none"
          /\ hist.value = prg_rom((cart.prg_banks - 1) * PRG_BANK_SIZE
                                  + hist.address - 49152)

\* C30: PRG-RAM at $6000-$7FFF is readable and writable exactly while bit 4
\* of the last value committed to the PRG-bank register is 0: after a commit
\* with bit 4 set a write leaves PRG-RAM unchanged and a read does not
\* return its contents.
C30_PrgRamEnable ==
    hist.committed >= 0 /\ hist.address \in 24576 .. 32767 =>
        LET enabled == (hist.committed \div 16) % 2 = 0
            index == hist.address - 24576
        IN  /\ hist.kind = "write" =>
                  cart.prg_ram = (IF enabled THEN Put(hist.pre.prg_ram, 0, index, hist.value)
                                  ELSE hist.pre.prg_ram)
            /\ hist.kind = "read" =>
                  IF enabled THEN hist.value = Get(cart.prg_ram, 0, index)
                  ELSE hist.value # Get(cart.prg_ram, 0, index)

\* C32: a commit to the control register accepts all four mirroring values:
\* a value whose bits 0-1 are 0 or 1 selects a one-screen mode and does not
\* abort.
C32_OneScreenAccepted ==
    hist.kind = "write" /\ hist.address \in 32768 .. 40959 /\ hist.value < 128
    /\ Len(hist.bits) = 5 =>
        fault = "none"

\* The PRG-ROM offset documented for a CPU read of address with PRG-bank
\* value b: in 32 KiB mode bank b >> 1 of 32 KiB, in fix-first mode bank 0
\* below $C000 and bank b from it, in fix-last mode bank b below $C000 and
\* the last bank from it.
PrgOffset(c, b, address) ==
    IF ~c.prg_size_bit THEN (b \div 2) * 32768 + (address - 32768)
    ELSE IF address < 49152
         THEN (IF c.prg_swap_range_bit THEN b ELSE 0) * PRG_BANK_SIZE + (address - 32768)
    ELSE (IF c.prg_swap_range_bit THEN c.prg_banks - 1 ELSE b) * PRG_BANK_SIZE
         + (address - 49152)

\* C33: with any PRG-bank value committed and any control mode, a CPU read
\* of $8000-$FFFF returns PRG-ROM at the documented offset, without an
\* overflow and without an index out of range.
C33_PrgMapping ==
    hist.kind = "read" /\ hist.address >= 32768 =>
        /\ fault = "none"
        /\ hist.value = prg_rom(PrgOffset(cart, cart.prg_bank, hist.address))
---------------------------------------------------------------------------
(* The nametables of an MMC1 cartridge under the mirroring it selects.     *)

\* Serial writes and nametable accesses of one run.
MaxMirrorOps == 8

\* vram is the VRAM before the nametable access recorded.
InitMirror ==
    /\ cpu = NewCpu
    /\ ram = Empty
    /\ ppu = PpuOn
    /\ nmi_line = TRUE
    /\ controller = NewController
    /\ apu = NewApu
    /\ irq_line = FALSE
    /\ fault = "none"
    /\ \E mirr \in {"Horizontal", "Vertical"} : cart = Mmc1Cart(mirr, 2, 1)
    /\ hist = [kind |-> "init", address |-> 0, value |-> 0, pre |-> cart,
               bits |-> <<>>, committed |-> -1, locked |-> FALSE, selected |-> -1,
               vram |-> ppu.vram]
    /\ fuel = MaxMirrorOps

\* Cartridge::write_mem_ppu with the VRAM of the PPU.
NametableWrite(address, value) ==
    /\ fault = "none"
    /\ fuel > 0
    /\ LET done(r) ==
               /\ cart' = r.c
               /\ ppu' = [ppu EXCEPT !.vram = r.vram]
               /\ fault' = r.fault
               /\ hist' = [hist EXCEPT !.kind = "nt_write", !.address = address,
                                       !.value = value, !.pre = cart, !.vram = ppu.vram]
       IN  done(call("cart_write_mem_ppu", <<cart, address, value, ppu.vram>>))
    /\ fuel' = fuel - 1
    /\ UNCHANGED <<cpu, ram, nmi_line, controller, apu, irq_line>>

\* Cartridge::read_mem_ppu with the VRAM of the PPU.
NametableRead(address) ==
    /\ fault = "none"
    /\ fuel > 0
    /\ LET done(r) ==
               /\ fault' = r.fault
               /\ hist' = [hist EXCEPT !.kind = "nt_read", !.address = address,
                                       !.value = r.v, !.pre = cart, !.vram = ppu.vram]
       IN  done(call("cart_read_mem_ppu", <<cart, address, ppu.vram>>))
    /\ fuel' = fuel - 1
    /\ UNCHANGED <<cpu, ram, nmi_line, ppu, controller, cart, apu, irq_line>>

NextMirror ==
    \/ \E value \in {0, 1} : Mmc1Write(32768, value)
    \/ \E address \in {8192, 9221, 10240, 12287, 13317} : NametableWrite(address, 17)
    \/ \E address \in {8192, 9221, 10240, 12287, 13317} : NametableRead(address)

SpecMirror == InitMirror /\ [][NextMirror]_vars

\* The cell of the 2 KiB of VRAM that a nametable address names under the
\* mirroring with the control bits selected: vertical (2) shares the
\* nametables 0 and 2 and the nametables 1 and 3, horizontal (3) the
\* nametables 0 and 1 and the nametables 2 and 3.
MirrorCell(selected, address) ==
    LET offset == (address - 8192) % 4096
        table == offset \div 1024
    IN  ((IF selected = 2 THEN table % 2 ELSE table \div 2) * 1024) + (offset % 1024)

\* C31: after a control commit that selects vertical or horizontal
\* mirroring, every nametable read and write of the PPU ($2000-$3EFF) uses
\* the cell of VRAM of the selected mirroring, whatever the header declares.
C31_SelectedMirroring ==
    hist.selected \in {2, 3} =>
        /\ hist.kind = "nt_write" =>
              /\ fault = "none"
              /\ ppu.vram = Put(hist.vram, 0, MirrorCell(hist.selected, hist.address),
                                hist.value)
        /\ hist.kind = "nt_read" =>
              /\ fault = "none"
              /\ hist.value = Get(ppu.vram, 0, MirrorCell(hist.selected, hist.address))

\* Log lines and instructions of one run.
MaxLogOps == 3

\* The bytes at PC: LDA $2002, LDA $2007, STA $2007, STA $2006, LDA $4016,
\* LDA $2000,X, LDA ($10),Y, JMP ($2002), LDA $10, NOP and the byte $02 that
\* is no opcode.
LogCodes ==
    {<<173, 2, 32>>, <<173, 7, 32>>, <<141, 7, 32>>, <<141, 6, 32>>, <<173, 22, 64>>,
     <<189, 0, 32>>, <<177, 16, 0>>, <<108, 2, 32>>, <<165, 16, 0>>, <<234, 0, 0>>,
     <<2, 0, 0>>}

\* The nestest run of main: the program is in the cartridge, the PPU in the
\* vertical blank or before it, with the NMI disabled; $10 holds a pointer
\* to $2002.
InitLog ==
    /\ \E x \in {0, 2} : cpu = [NewCpu EXCEPT !.reg.pc = 49152, !.reg.x = x]
    /\ ram = (16 :> 2) @@ (17 :> 32)
    /\ \E p \in {PpuInVblank, PpuOn} : ppu = [p EXCEPT !.gen_nmi_at_vblank = FALSE]
    /\ nmi_line = TRUE
    /\ controller = NewController
    /\ cart = NromCart("Horizontal", 1)
    /\ apu = NewApu
    /\ irq_line = FALSE
    /\ fault = "none"
    /\ hist = [kind |-> "init", pre |-> Mach(<<0, 0, 0>>), writes |-> <<>>,
               edge |-> FALSE, cycles |-> 0, irq |-> FALSE, reads |-> <<>>]
    /\ fuel = MaxLogOps

\* nes::get_state_string before the execute call of the loop of
\* test_nestest_rom; code is what the cartridge holds at PC.
GetStateString(code) ==
    /\ fault = "none"
    /\ fuel > 0
    /\ hist.kind = "log" => code = hist.pre.code
    /\ LET pre == Mach(code)
           done(r) ==
               /\ Install(r.s)
               /\ hist' = [kind |-> "log", pre |-> pre, writes |-> <<>>, edge |-> FALSE,
                           cycles |-> 0, irq |-> FALSE, reads |-> r.reads]
       IN  done(decode_instruction(pre))
    /\ fuel' = fuel - 1
    /\ UNCHANGED <<apu, irq_line>>

\* Cpu::execute of the instruction the log line was built for.
LogExecute(code) ==
    /\ hist.kind = "log" => code = hist.pre.code
    /\ Execute(code)

NextLog ==
    \/ \E code \in LogCodes : GetStateString(code)
    \/ \E code \in LogCodes : LogExecute(code)

SpecLog == InitLog /\ [][NextLog]_vars

\* C34: building the log line of an instruction that addresses a PPU
\* register does not clear the vblank flag, does not increment v and does
\* not toggle w; after it a CPU read of $2002 clears the vblank flag and w
\* and a CPU read of $2007 increments v as ever.
C34_LogKeepsPpu ==
    /\ hist.kind = "log"
       /\ (\E i \in DOMAIN hist.reads : hist.reads[i] \in 8192 .. 16383) =>
          /\ fault = "none"
          /\ ppu.vblank = hist.pre.ppu.vblank
          /\ ppu.reg.v = hist.pre.ppu.reg.v
          /\ ppu.reg.w = hist.pre.ppu.reg.w
          /\ ppu.mem_read_mut_enabled
    /\ hist.kind = "instr" /\ fault = "none" /\ hist.pre.code = <<173, 2, 32>> =>
          /\ ~ppu.reg.w
          /\ hist.pre.ppu.vblank => ~ppu.vblank /\ cpu.reg.a >= 128
    /\ hist.kind = "instr" /\ fault = "none" /\ hist.pre.code = <<173, 7, 32>> =>
          ppu.reg.v = U16(hist.pre.ppu.reg.v + hist.pre.ppu.vram_addr_increment)

\* A log line was built for LDA $2002 in the vertical blank with w set.
C34_Witness ==
    /\ hist.kind = "log"
    /\ hist.pre.code = <<173, 2, 32>>
    /\ hist.pre.ppu.vblank /\ hist.pre.ppu.reg.w
    /\ ppu.vblank /\ ppu.reg.w

\* C39: get_state_string is transparent: for every byte at PC, an opcode or
\* not, and every operand address it leaves the CPU, the PPU, the controller
\* and the cartridge as they were, so a run with it before each execute
\* reaches the states of the run without it; it does not advance the
\* position of the controller and leaves the side effects of PPU reads on.
C39_LogTransparent ==
    hist.kind = "log" =>
        /\ fault = "none"
        /\ cpu = hist.pre.cpu /\ ram = hist.pre.ram /\ ppu = hist.pre.ppu
        /\ controller = hist.pre.controller /\ cart = hist.pre.cart
        /\ nmi_line = hist.pre.nmi_line
        /\ ppu.mem_read_mut_enabled

---------------------------------------------------------------------------
(* The scroll address v under the dots of a visible scanline.              *)

\* The fields of v: coarse X (bits 0-4), coarse Y (bits 5-9), the nametable
\* bits X (10) and Y (11) and fine Y (bits 12-14).
ScrollAddresses ==
    {fine * 4096 + ny * 2048 + nx * 1024 + cy * 32 + cx :
        fine \in {3, 7}, ny \in {0, 1}, nx \in {0, 1}, cy \in {5, 29, 31}, cx \in {7, 31}}

\* PPUs on a visible scanline around the dots 248, 256 and 257, rendering the
\* background or not.
ScrollPpus ==
    {[PpuAt(line, dot) EXCEPT !.background_enabled = on, !.reg.v = v, !.reg.t = t] :
        line \in {0, 239}, dot \in {246, 253, 254, 255, 256, 257},
        on \in BOOLEAN, v \in ScrollAddresses, t \in {1055, 10896}}

InitScroll ==
    /\ ppu \in ScrollPpus
    /\ ram = Empty
    /\ cart = NromCart("Horizontal", 1)
    /\ InitBus

NextScroll == \E count \in {1, 2} : BusStep(count)

SpecScroll == InitScroll /\ [][NextScroll]_vars

\* The vertical increment as the fields of v: fine Y below 7 is stepped; from
\* 7 it becomes 0 and coarse Y is stepped, from 29 to 0 with the nametable bit
\* Y toggled and from 31 to 0 without.
RefVertical(v) ==
    LET fine == (v \div 4096) % 8
        cy == (v \div 32) % 32
        ny == (v \div 2048) % 2
        rest == v - fine * 4096 - cy * 32 - ny * 2048
    IN  IF fine < 7 THEN rest + (fine + 1) * 4096 + cy * 32 + ny * 2048
        ELSE rest + (IF cy \in {29, 31} THEN 0 ELSE cy + 1) * 32
                  + (IF cy = 29 THEN 1 - ny ELSE ny) * 2048

\* The horizontal increment as the fields of v: coarse X is stepped, from 31
\* to 0 with the nametable bit X toggled.
RefHorizontal(v) ==
    LET cx == v % 32
        nx == (v \div 1024) % 2
        rest == v - cx - nx * 1024
    IN  IF cx < 31 THEN rest + cx + 1 + nx * 1024
        ELSE rest + (1 - nx) * 1024

\* v after the dot of a visible scanline with rendering enabled: the vertical
\* increment at dot 256, the horizontal bits (coarse X and the nametable bit
\* X) of t at dot 257, and the horizontal increment step_cycle makes after
\* the tile fetch at every eighth dot up to 256.
RefDot(v, t, dot) ==
    LET v1 == IF dot = 256 THEN RefVertical(v)
              ELSE IF dot = 257
                   THEN v - (v % 32) - ((v \div 1024) % 2) * 1024
                          + (t % 32) + ((t \div 1024) % 2) * 1024
                   ELSE v
    IN  IF dot \in 1 .. 256 /\ dot % 8 = 0 THEN RefHorizontal(v1) ELSE v1

RECURSIVE RefDots(_, _, _, _)
RefDots(v, t, dot, n) ==
    IF n = 0 THEN v ELSE RefDots(RefDot(v, t, dot), t, dot + 1, n - 1)

\* C35: the increments of v change only their own fields: the vertical one
\* steps fine Y below 7 and otherwise zeroes it and steps coarse Y, from 29 to
\* 0 with the nametable bit Y toggled and from 31 to 0 without; the
\* horizontal one steps coarse X, from 31 to 0 with the nametable bit X
\* toggled. With rendering enabled on a visible scanline the dots of a step
\* make the vertical increment once, at dot 256, and copy the horizontal bits
\* of t to v at dot 257.
C35_VIncrements ==
    (/\ hist.kind = "step"
     /\ hist.pre.ppu.background_enabled
     /\ hist.pre.ppu.scan_line \in 0 .. 239
     /\ hist.pre.ppu.cycle_count \in 246 .. 320) =>
        LET p == hist.pre.ppu
        IN  /\ fault = "none"
            /\ increment_v_vertical(p.reg.v) = RefVertical(p.reg.v)
            /\ increment_v_horizontal(p.reg.v) = RefHorizontal(p.reg.v)
            /\ ppu.reg.t = p.reg.t
            /\ ppu.reg.v = RefDots(p.reg.v, p.reg.t, p.cycle_count, 3 * hist.value)

\* A step over dot 256 has wrapped coarse Y from 29 with fine Y 7 and coarse
\* X from 31.
C35_Witness ==
    /\ hist.kind = "step"
    /\ hist.value = 1
    /\ hist.pre.ppu.background_enabled
    /\ hist.pre.ppu.scan_line = 239
    /\ hist.pre.ppu.cycle_count = 254
    /\ hist.pre.ppu.reg.v = 7 * 4096 + 29 * 32 + 31
    /\ ppu.reg.v = 2048 + 1024

---------------------------------------------------------------------------
(* The envelopes of the pulse channels under the quarter-frame clocks.     *)

\* Writes and clocks of one run.
MaxEnvelopeOps == 8

\* Envelopes the writes of $4000 and $4003 and the clocks lead to: a volume
\* and a loop flag as written, a decay level the clocks have counted down to
\* and a divider within the volume.
ReachedEnvelopes ==
    {[NewEnvelope EXCEPT !.volume = volume, !.loop_flag = loop,
                         !.decay_level = decay, !.divider = divider] :
        volume \in {0, 2}, loop \in BOOLEAN, decay \in {0, 1, 14, 15},
        divider \in {0, 2}}

InitEnvelope ==
    /\ cpu = NewCpu
    /\ ram = Empty
    /\ ppu = PpuOn
    /\ cart = NromCart("Horizontal", 1)
    /\ nmi_line = TRUE
    /\ controller = NewController
    /\ irq_line = FALSE
    /\ fault = "none"
    /\ \E e \in ReachedEnvelopes :
          /\ e.divider <= e.volume
          /\ apu = [NewApu EXCEPT !.pulse1.envelope = e]
    /\ hist = [kind |-> "init", pre |-> apu]
    /\ fuel = MaxEnvelopeOps

\* Apu::write_mem of value to a register of a pulse channel.
ChannelWrite(address, value) ==
    /\ fuel > 0
    /\ apu' = call("Apu_write_mem", <<apu, address, value>>)
    /\ hist' = [kind |-> "write", pre |-> apu]
    /\ fuel' = fuel - 1
    /\ UNCHANGED <<cpu, ram, nmi_line, ppu, controller, cart, irq_line, fault>>

\* Apu::step_quarter_frame_clock, which Apu::step_cycle calls at the
\* cycles frame_clocks gives.
QuarterFrameClock ==
    /\ fuel > 0
    /\ apu' = call("step_quarter_frame_clock", <<apu>>)
    /\ hist' = [kind |-> "clock", pre |-> apu]
    /\ fuel' = fuel - 1
    /\ UNCHANGED <<cpu, ram, nmi_line, ppu, controller, cart, irq_line, fault>>

\* $4000 with the volumes 0 and 1, looping or not, and $4003; $4004 looping
\* with volume 0 and $4007.
NextEnvelope ==
    \/ \E value \in {0, 1, 32, 49} : ChannelWrite(16384, value)
    \/ ChannelWrite(16387, 0)
    \/ ChannelWrite(16388, 32)
    \/ ChannelWrite(16391, 0)
    \/ QuarterFrameClock

SpecEnvelope == InitEnvelope /\ [][NextEnvelope]_vars

\* The envelope e has become f by a quarter-frame clock.
EnvelopeClocked(e, f) ==
    /\ f.volume = e.volume
    /\ f.loop_flag = e.loop_flag
    /\ f.constant_volume_flag = e.constant_volume_flag
    /\ ~f.start_flag
    /\ IF e.start_flag THEN f.decay_level = 15 /\ f.divider = e.volume
       ELSE IF e.divider > 0
            THEN f.divider = e.divider - 1 /\ f.decay_level = e.decay_level
       ELSE /\ f.divider = e.volume
            /\ f.decay_level = IF e.decay_level > 0 THEN e.decay_level - 1
                               ELSE IF e.loop_flag THEN 15 ELSE 0
    /\ (~e.start_flag /\ ~e.loop_flag) =>
           /\ f.decay_level <= e.decay_level
           /\ e.decay_level = 0 => f.decay_level = 0

\* C36: a quarter-frame clock restarts an envelope whose start flag is set
\* (flag cleared, decay 15, divider the volume) and otherwise ticks its
\* divider, which from 0 is reloaded with the volume while decay is
\* decremented; decay stays in 0..15; with the loop flag clear it never
\* increases between restarts and stays 0 once it is 0, with the loop flag
\* set it goes from 0 to 15.  The writes leave decay as it is.
C36_EnvelopeClock ==
    /\ apu.pulse1.envelope.decay_level \in 0 .. 15
    /\ apu.pulse2.envelope.decay_level \in 0 .. 15
    /\ hist.kind = "clock" =>
          /\ EnvelopeClocked(hist.pre.pulse1.envelope, apu.pulse1.envelope)
          /\ EnvelopeClocked(hist.pre.pulse2.envelope, apu.pulse2.envelope)
    /\ hist.kind = "write" =>
          /\ apu.pulse1.envelope.decay_level = hist.pre.pulse1.envelope.decay_level
          /\ apu.pulse2.envelope.decay_level = hist.pre.pulse2.envelope.decay_level

\* A clock has taken the looping envelope of the second pulse channel from
\* decay 0 to 15 while the first, not looping, stayed at 0.
C36_Witness ==
    /\ hist.kind = "clock"
    /\ ~hist.pre.pulse2.envelope.start_flag
    /\ hist.pre.pulse2.envelope.loop_flag
    /\ hist.pre.pulse2.envelope.decay_level = 0
    /\ apu.pulse2.envelope.decay_level = 15
    /\ ~hist.pre.pulse1.envelope.start_flag
    /\ ~hist.pre.pulse1.envelope.loop_flag
    /\ hist.pre.pulse1.envelope.divider = 0
    /\ hist.pre.pulse1.envelope.decay_level = 0
    /\ apu.pulse1.envelope.decay_level = 0

---------------------------------------------------------------------------
(* The periods of the pulse channels under the sweeps' half-frame clocks.  *)

\* Writes and clocks of one run.
MaxSweepOps == 6

InitSweep ==
    /\ cpu = NewCpu
    /\ ram = Empty
    /\ ppu = PpuOn
    /\ cart = NromCart("Horizontal", 1)
    /\ nmi_line = TRUE
    /\ controller = NewController
    /\ irq_line = FALSE
    /\ fault = "none"
    /\ apu = NewApu
    /\ hist = [kind |-> "init", pre |-> apu]
    /\ fuel = MaxSweepOps

\* Apu::step_half_frame_clock, which Apu::step_cycle calls after
\* step_quarter_frame_clock at the cycles frame_clocks gives.
HalfFrameClock ==
    /\ fuel > 0
    /\ apu' = step_half_frame_clock(apu)
    /\ hist' = [kind |-> "clock", pre |-> apu]
    /\ fuel' = fuel - 1
    /\ UNCHANGED <<cpu, ram, nmi_line, ppu, controller, cart, irq_line, fault>>

\* The sweep of the first channel set up enabled with the shift counts 0, 1
\* and 2, adding and subtracting, with the divider periods 0 and 1, and
\* disabled; its period written low and high; the second channel's sweep
\* subtracting and its period written.
NextSweep ==
    \/ \E value \in {1, 128, 129, 137, 138, 145} : ChannelWrite(16385, value)
    \/ \E value \in {7, 8, 255} : ChannelWrite(16386, value)
    \/ \E value \in {0, 5, 255} : ChannelWrite(16387, value)
    \/ ChannelWrite(16389, 137)
    \/ ChannelWrite(16390, 255)
    \/ ChannelWrite(16391, 7)
    \/ HalfFrameClock

SpecSweep == InitSweep /\ [][NextSweep]_vars

\* The period the sweep of channel c aims at: the period plus or minus the
\* period shifted right by the shift count, one less for the first channel
\* when subtracting, and the period itself with the shift count 0.
TargetPeriod(c) ==
    LET shifted == c.timer_max \div Pow2(c.sweep.shift_count)
    IN  IF c.sweep.shift_count = 0 THEN c.timer_max
        ELSE IF ~c.sweep.negate THEN c.timer_max + shifted
        ELSE c.timer_max - shifted - (IF c.sweep.extra_minus_one THEN 1 ELSE 0)

\* The period of channel c has become that of d by a half-frame clock.
SweepClocked(c, d) ==
    LET replaced ==
            /\ c.sweep.timer = 0
            /\ c.sweep.enabled
            /\ c.timer_max >= 8
            /\ TargetPeriod(c) <= 2047
    IN  d.timer_max = IF replaced THEN TargetPeriod(c) ELSE c.timer_max

\* C37: after any writes of $4002/$4003 and $4006/$4007, sweep setups and
\* half-frame clocks the period of a pulse channel is at most $7FF; a
\* half-frame clock replaces it by the sweep's target only when the sweep's
\* divider is 0, the sweep is enabled, the period is at least 8 and the target
\* at most $7FF.
C37_PeriodBounded ==
    /\ apu.pulse1.timer_max \in 0 .. 2047
    /\ apu.pulse2.timer_max \in 0 .. 2047
    /\ hist.kind = "clock" =>
          /\ SweepClocked(hist.pre.pulse1, apu.pulse1)
          /\ SweepClocked(hist.pre.pulse2, apu.pulse2)

\* A clock has left the period $7FF of the first channel, whose enabled sweep
\* with the divider at 0 aimed above $7FF, as it was, and has swept the
\* second channel's down.
C37_Witness ==
    /\ hist.kind = "clock"
    /\ hist.pre.pulse1.timer_max = 2047
    /\ hist.pre.pulse1.sweep.enabled
    /\ hist.pre.pulse1.sweep.timer = 0
    /\ ~hist.pre.pulse1.sweep.negate
    /\ hist.pre.pulse1.sweep.shift_count = 1
    /\ apu.pulse1.timer_max = 2047
    /\ hist.pre.pulse2.timer_max = 255
    /\ apu.pulse2.timer_max = 128

---------------------------------------------------------------------------
(* The VRAM address under the writes of $2006 and the accesses of $2007.   *)

\* The PPU in the vertical blank, rendering off, after a pair of writes of
\* $2006 that set the address and a write of $2000 that set the increment.
VramPpus ==
    {RegPpu(245, FALSE, 0, increment, v, v, 0, FALSE) :
        increment \in {1, 32}, v \in {0, 8192, 16128, 16368, 16383}}

InitVram ==
    /\ ppu \in VramPpus
    /\ ram = Empty
    /\ cart = NromCart("Horizontal", 1)
    /\ InitBus

NextVram ==
    \/ BusRead(8199)
    \/ \E value \in {0, 63, 255} : BusWrite(8198, value)
    \/ \E value \in {17, 255} : BusWrite(8199, value)

SpecVram == InitVram /\ [][NextVram]_vars

\* C38: after any $2006 writes and $2007 reads and writes, with either
\* increment, v stays within 15 bits and no access of $2007 faults: an
\* address out of range is ignored or wrapped.
C38_VramAddressSafe ==
    /\ ppu.reg.v \in 0 .. 32767
    /\ hist.kind \in {"read", "write"} => fault = "none"

---------------------------------------------------------------------------
(* The two loops of main over Cpu::execute, frame after frame.             *)

\* Frames main presents in one run.
MaxFrames == 2

\* Programs in RAM at $0000 that loop for ever: one reads $2002 in every
\* turn (LDA $2002; JMP $0000), one reads $2007 (LDA $2007; JMP $0000), one
\* reads no register (NOP; JMP $0000) and one starts an OAM DMA in every turn
\* (STA $4014; JMP $0000).
FramePrograms ==
    {(0 :> 173) @@ (1 :> 2) @@ (2 :> 32) @@ (3 :> 76) @@ (4 :> 0) @@ (5 :> 0),
     (0 :> 173) @@ (1 :> 7) @@ (2 :> 32) @@ (3 :> 76) @@ (4 :> 0) @@ (5 :> 0),
     (0 :> 234) @@ (1 :> 76) @@ (2 :> 0) @@ (3 :> 0),
     (0 :> 141) @@ (1 :> 20) @@ (2 :> 64) @@ (3 :> 76) @@ (4 :> 0) @@ (5 :> 0)}

\* main after Cpu::reset and the program's writes of $2000 and $2001, with
\* the NMI enabled or not and the increment 32: the PC is at the loop, the
\* first loop of main is about to test the flag.  loop names the loop of main the next call of
\* execute is in, waited the dots the PPU has made in that loop, took the dots
\* the loop that ended last had made, frames the frames presented.
InitFrame ==
    /\ cpu = [NewCpu EXCEPT !.reg.pc = 0]
    /\ ram \in FramePrograms
    /\ \E nmi \in BOOLEAN : ppu = [PpuOn EXCEPT !.gen_nmi_at_vblank = nmi,
                                              !.vram_addr_increment = 32]
    /\ cart = NromCart("Horizontal", 1)
    /\ nmi_line = TRUE
    /\ controller = NewController
    /\ apu = NewApu
    /\ irq_line = FALSE
    /\ fault = "none"
    /\ hist = [kind |-> "init", loop |-> "while !vblank", waited |-> 0, took |-> 0,
               frames |-> 0]
    /\ fuel = 0

\* One call of cpu.execute in a loop of main and the test of the flag that
\* follows it.  The handler of the NMI, in the cartridge, is an RTI.
FrameExecute ==
    /\ fault = "none"
    /\ hist.frames < MaxFrames
    /\ LET pre == Mach(<<64, 0, 0>>)
           done(r) ==
               LET dots == hist.waited + DotsBetween(ppu, r.s.ppu)
                   stay == r.s.ppu.vblank = (hist.loop = "while vblank")
                   ended == ~stay /\ hist.loop = "while !vblank"
               IN  /\ Install(r.s)
                   /\ hist' = IF r.s.fault # "none" THEN [hist EXCEPT !.kind = "fault"]
                              ELSE [kind |-> IF stay THEN "call" ELSE "exit",
                                    loop |-> IF stay THEN hist.loop
                                             ELSE IF ended THEN "while vblank"
                                             ELSE "while !vblank",
                                    waited |-> IF stay THEN dots ELSE 0,
                                    took |-> IF stay THEN hist.took ELSE dots,
                                    frames |-> hist.frames + (IF ended THEN 1 ELSE 0)]
       IN  done(call("execute", <<pre>>))
    /\ UNCHANGED <<apu, irq_line, fuel>>

NextFrame == FrameExecute

SpecFrame == InitFrame /\ [][NextFrame]_vars

\* C40: under repeated calls of execute, with the NMI enabled or not and
\* $2002 read in every turn of the program or never, the loop of main that
\* waits for the vblank flag sees it set after a call within the dots of one
\* frame, and the loop that waits for it to clear sees it clear within the
\* dots of one frame: no call faults, and a loop has ended before the calls
\* in it have made the dots of a frame.
C40_FrameLoopsEnd ==
    /\ fault = "none"
    /\ hist.waited < DotsPerFrame
    /\ hist.took <= DotsPerFrame

\* The calls that fault are the reads of $2007 with v at $4000 or above; in
\* every other run the loops end within the dots of a frame.
FrameLoopsEndButVram ==
    /\ fault # "none" => (ram[1] = 7 /\ ppu.reg.v >= 16384)
    /\ hist.waited < DotsPerFrame
    /\ hist.took <= DotsPerFrame
====
